---------------------------- MODULE Spec2Model ----------------------------
(***************************************************************************)
(* A model of the UPI fraud-detection service: the HTTP endpoint           *)
(* (backend/app.py), the orchestrator and its in-process cache             *)
(* (backend/orchestrator.py), the Stage 1 link validator                   *)
(* (link_validation/validator.py), the Stage 2 adapter and scanner         *)
(* (stage2_dynamic/), and the QR and VPA validators (qr_validation/).      *)
(*                                                                         *)
(* Python strings are sequences of one-character strings, so that the      *)
(* string operations of the code (lower, replace, startswith, endswith,    *)
(* substring search, regular-expression matching, slicing) are computed    *)
(* and not assumed.  Python dicts are records; a key that a dict may lack  *)
(* is a field the record may lack ("error" \in DOMAIN r).  Risk scores are *)
(* integers in hundredths (0.7 is 70).  The sums the code forms from the   *)
(* literals 0.15, 0.3, 0.5 and 0.1 compare with the thresholds 0.3 and 0.7 *)
(* in IEEE double arithmetic exactly as the hundredths do.                 *)
(***************************************************************************)
EXTENDS Integers, Sequences, FiniteSets, Bags, TLC

VARIABLES
    cache,      \* orchestrator._VALIDATION_CACHE: cache key -> {result, timestamp}
    now,        \* the wall clock: datetime.now() in hours, time.time() in seconds
    mlModels,   \* validator._ML_MODELS: the link validator's model cache
    artifacts,  \* the Stage 1 artifact files on disk, as joblib finds them
    arg,        \* the input drawn for a single-call specification
    last,       \* the last call made: its input, what it invoked, its result
    grid,       \* links_stage1.main: the threshold search and the saved config
    rows,       \* cache_backends.Cache: the rows of the table cache
    VPA_REPUTATION,  \* vpa_reputation.VPA_REPUTATION: VPA -> {reports, trust}
    scan,       \* scan_playwright.main: the semaphore and the scan_one tasks
    files       \* stage2_dynamic.DATA: the CSV files run_batch_scoring writes

vars == <<cache, now, mlModels, artifacts, arg, last, grid, rows, VPA_REPUTATION, scan, files>>

\* the state of the validation service, and the state of the offline tools
service == <<cache, mlModels, artifacts>>
tools == <<grid, rows, VPA_REPUTATION, scan, files>>

----------------------------------------------------------------------------
(* Python str operations on sequences of characters.                       *)

Upper == <<"A","B","C","D","E","F","G","H","I","J","K","L","M","N","O","P","Q","R","S","T","U","V","W","X","Y","Z">>
Lowers == <<"a","b","c","d","e","f","g","h","i","j","k","l","m","n","o","p","q","r","s","t","u","v","w","x","y","z">>

\* str.lower() on one character
LowerChar(c) ==
    IF \E i \in 1..26 : Upper[i] = c
    THEN Lowers[CHOOSE i \in 1..26 : Upper[i] = c]
    ELSE c

\* str.lower()
Lower(s) == [i \in 1..Len(s) |-> LowerChar(s[i])]

IsAlpha(c) == \E i \in 1..26 : Upper[i] = c \/ Lowers[i] = c
IsDigit(c) == c \in {"0","1","2","3","4","5","6","7","8","9"}
IsAlnum(c) == IsAlpha(c) \/ IsDigit(c)
IsSpace(c) == c \in {" ", "\n", "\t"}

\* s[:n]
Prefix(s, n) == IF Len(s) <= n THEN s ELSE SubSeq(s, 1, n)

\* s[n:] for a 1-based first position n
From(s, n) == SubSeq(s, n, Len(s))

\* p occurs in s at (1-based) position i
OccursAt(s, p, i) ==
    /\ i >= 1
    /\ i + Len(p) - 1 <= Len(s)
    /\ \A k \in 1..Len(p) : s[i + k - 1] = p[k]

\* s.startswith(p)
StartsWith(s, p) == OccursAt(s, p, 1)

\* s.endswith(p)
EndsWith(s, p) == Len(p) <= Len(s) /\ OccursAt(s, p, Len(s) - Len(p) + 1)

\* p in s
Contains(s, p) == \E i \in 1..(Len(s) - Len(p) + 1) : OccursAt(s, p, i)

\* the least member of a set of positions, 0 when the set is empty
Least(S) == IF S = {} THEN 0 ELSE CHOOSE i \in S : \A j \in S : i <= j

\* s.find(p), 1-based; 0 when p does not occur
Find(s, p) == Least({i \in 1..(Len(s) - Len(p) + 1) : OccursAt(s, p, i)})

\* s.replace(old, new): every non-overlapping occurrence, left to right
RECURSIVE Replace(_, _, _)
Replace(s, old, new) ==
    LET At(i) ==
            IF i = 0 THEN s
            ELSE SubSeq(s, 1, i - 1) \o new \o Replace(From(s, i + Len(old)), old, new)
    IN IF Len(old) = 0 THEN s ELSE At(Find(s, old))

\* s.rstrip(chars): s up to its last character that is not in chars
RStrip(s, chars) ==
    SubSeq(s, 1, Least({k \in 0..Len(s) : \A j \in (k + 1)..Len(s) : s[j] \in chars}))

\* s.split(sep)[-1] for a one-character separator: what follows the last sep
AfterLast(s, sep) ==
    From(s, Least({k \in 0..Len(s) : \A j \in (k + 1)..Len(s) : s[j] # sep}) + 1)

\* str(None) as f"{value}" renders it
NoneText == <<"N","o","n","e">>

\* A reason string: its fixed text and the value interpolated into it
\* (numbers formatted into a reason are left out of the text).
R(text) == [text |-> text, arg |-> <<>>]
RA(text, a) == [text |-> text, arg |-> a]

\* Python's None where a dict is expected, and the empty dict
None == [none |-> TRUE]
EmptyDict == [k \in {} |-> TRUE]

\* dict without one key
Without(d, key) == [k \in DOMAIN d \ {key} |-> d[k]]

\* dict with d[key] = value
With(d, key, value) == [k \in DOMAIN d \cup {key} |-> IF k = key THEN value ELSE d[k]]

Max(a, b) == IF a >= b THEN a ELSE b
Min(a, b) == IF a <= b THEN a ELSE b

----------------------------------------------------------------------------
(* Faulty variants of operators of the program, each of which one of the   *)
(* properties at the end of the module rejects.                            *)

\* get_from_cache that never finds an entry fresh
NeverFresh(entry, clock) == FALSE

\* validate_input that stores every computed result
AlwaysCacheable(result) == TRUE

\* validate_link that runs Stage 2 on BLOCK only
OnlyBlockTriggersStage2(stage1_verdict) == stage1_verdict = "BLOCK"

\* validate_link that takes the smaller of the two scores
SmallerScore(stage1_score, stage2_score) == Min(stage1_score, stage2_score)

\* validate_link that takes Stage 2's verdict when Stage 2 succeeded
TakeStage2Verdict(stage1_verdict, stage2_verdict) == stage2_verdict

\* validate_link that counts every Stage 2 answer as a success
AnyAnswerSucceeded(stage2_result) == stage2_result # None

\* POST /validate that answers 200 to everything
AlwaysOk(req, c, clock, models, art, env) ==
    [status |-> 200, body |-> EmptyDict, called |-> FALSE, result |-> None,
     cache |-> c, models |-> models, calls |-> <<>>]

\* validate_message that adds no risk for a URL
NoUrlRisk(url_verdict) == 0

----------------------------------------------------------------------------
(* link_validation/validator.py: the Stage 1 link validator.               *)

\* urllib.parse.urlparse(url): the position after the scheme's colon, 1 when
\* the URL has no scheme (a scheme is a letter followed by letters, digits,
\* "+", "-" or "." up to the first colon).
AfterScheme(url) ==
    LET SchemeChar(c) == IsAlnum(c) \/ c \in {"+", "-", "."}
        Scheme(i) ==
            IF i > 1 /\ IsAlpha(url[1]) /\ \A k \in 1..(i - 1) : SchemeChar(url[k])
            THEN i + 1 ELSE 1
    IN Scheme(Find(url, <<":">>))

\* urlparse(url).netloc: what follows "//" up to the first "/", "?" or "#"
Netloc(url) ==
    LET UpToStop(body) ==
            SubSeq(body, 1,
                   Least({k \in 1..(Len(body) + 1) :
                             k = Len(body) + 1 \/ body[k] \in {"/", "?", "#"}}) - 1)
        Authority(rest) ==
            IF StartsWith(rest, <<"/","/">>) THEN UpToStop(From(rest, 3)) ELSE <<>>
    IN Authority(From(url, AfterScheme(url)))

\* urlparse raises ValueError("Invalid IPv6 URL") on an unbalanced bracket
UrlparseRaises(url) ==
    LET Unbalanced(n) ==
            (\E k \in 1..Len(n) : n[k] = "[") # (\E k \in 1..Len(n) : n[k] = "]")
    IN Unbalanced(Netloc(url))

TRUSTED_DOMAINS == {
    <<"g","o","o","g","l","e",".","c","o","m">>, <<"g","m","a","i","l",".","c","o","m">>, <<"y","o","u","t","u","b","e",".","c","o","m">>, <<"f","a","c","e","b","o","o","k",".","c","o","m">>, <<"m","e","t","a",".","c","o","m">>,
    <<"a","m","a","z","o","n",".","c","o","m">>, <<"a","m","a","z","o","n","p","a","y",".","i","n">>, <<"a","p","p","l","e",".","c","o","m">>, <<"m","i","c","r","o","s","o","f","t",".","c","o","m">>, <<"n","e","t","f","l","i","x",".","c","o","m">>,
    <<"t","w","i","t","t","e","r",".","c","o","m">>, <<"x",".","c","o","m">>, <<"i","n","s","t","a","g","r","a","m",".","c","o","m">>, <<"l","i","n","k","e","d","i","n",".","c","o","m">>, <<"w","h","a","t","s","a","p","p",".","c","o","m">>,
    <<"w","i","k","i","p","e","d","i","a",".","o","r","g">>, <<"r","e","d","d","i","t",".","c","o","m">>, <<"g","i","t","h","u","b",".","c","o","m">>, <<"s","t","a","c","k","o","v","e","r","f","l","o","w",".","c","o","m">>,
    <<"h","d","f","c","b","a","n","k",".","c","o","m">>, <<"i","c","i","c","i","b","a","n","k",".","c","o","m">>, <<"s","b","i",".","c","o",".","i","n">>, <<"o","n","l","i","n","e","s","b","i",".","s","b","i">>,
    <<"a","x","i","s","b","a","n","k",".","c","o","m">>, <<"k","o","t","a","k","b","a","n","k",".","c","o","m">>, <<"y","e","s","b","a","n","k",".","i","n">>, <<"p","n","b","i","n","d","i","a",".","i","n">>,
    <<"b","a","n","k","o","f","b","a","r","o","d","a",".","i","n">>, <<"c","a","n","a","r","a","b","a","n","k",".","c","o","m">>, <<"u","n","i","o","n","b","a","n","k","o","f","i","n","d","i","a",".","c","o",".","i","n">>,
    <<"p","a","y","t","m",".","c","o","m">>, <<"p","h","o","n","e","p","e",".","c","o","m">>, <<"g","o","o","g","l","e","p","a","y",".","c","o","m">>,
    <<"b","h","i","m","u","p","i",".","o","r","g",".","i","n">>, <<"n","p","c","i",".","o","r","g",".","i","n">>, <<"u","p","i",".","c","o","m">>,
    <<"g","o","v",".","i","n">>, <<"n","i","c",".","i","n">>, <<"u","i","d","a","i",".","g","o","v",".","i","n">>, <<"e","p","f","i","n","d","i","a",".","g","o","v",".","i","n">> }

\* is_trusted_domain(url); the bare except turns a urlparse error into False
is_trusted_domain(url) ==
    LET Trusted(domain) ==
            \/ domain \in TRUSTED_DOMAINS
            \/ \E trusted \in TRUSTED_DOMAINS :
                  EndsWith(domain, <<".">> \o trusted) \/ domain = trusted
    IN IF UrlparseRaises(url) THEN FALSE
       ELSE Trusted(Replace(Lower(Netloc(url)), <<"w","w","w",".">>, <<>>))

\* PHISHING_PATTERNS, each regular expression by its shape:
\*   "mid_end"  .*<a>.*<b>$      "pre_end"  <a>.*<b>$      "end"  .*<a>$
\*   "netbanking"  .*netbanking.*\.(?!hdfcbank\.com|icicibank\.com)
PHISHING_PATTERNS == <<
    [kind |-> "mid_end", a |-> <<"-","v","e","r","i","f","y">>, b |-> <<".","c","o","m">>],
    [kind |-> "mid_end", a |-> <<"-","k","y","c">>, b |-> <<".","c","o","m">>],
    [kind |-> "mid_end", a |-> <<"-","u","p","d","a","t","e">>, b |-> <<".","c","o","m">>],
    [kind |-> "mid_end", a |-> <<"-","s","e","c","u","r","e">>, b |-> <<".","c","o","m">>],
    [kind |-> "mid_end", a |-> <<"-","b","l","o","c","k">>, b |-> <<".","c","o","m">>],
    [kind |-> "mid_end", a |-> <<"-","s","u","s","p","e","n","d","e","d">>, b |-> <<".","c","o","m">>],
    [kind |-> "mid_end", a |-> <<"-","r","e","a","c","t","i","v","a","t","e">>, b |-> <<".","c","o","m">>],
    [kind |-> "mid_end", a |-> <<"-","c","o","n","f","i","r","m">>, b |-> <<".","c","o","m">>],
    [kind |-> "pre_end", a |-> <<"u","p","i","-">>, b |-> <<".","c","o","m">>],
    [kind |-> "end", a |-> <<"-","u","p","i",".","c","o","m">>, b |-> <<>>],
    [kind |-> "pre_end", a |-> <<"s","b","i","-">>, b |-> <<".","c","o","m">>],
    [kind |-> "pre_end", a |-> <<"h","d","f","c","-">>, b |-> <<".","c","o","m">>],
    [kind |-> "pre_end", a |-> <<"i","c","i","c","i","-">>, b |-> <<".","c","o","m">>],
    [kind |-> "pre_end", a |-> <<"p","a","y","t","m","-">>, b |-> <<".","c","o","m">>],
    [kind |-> "mid_end", a |-> <<"-","b","a","n","k">>, b |-> <<".","c","o","m">>],
    [kind |-> "mid_end", a |-> <<"b","a","n","k","-">>, b |-> <<".","c","o","m">>],
    [kind |-> "netbanking", a |-> <<"n","e","t","b","a","n","k","i","n","g">>, b |-> <<>>] >>

\* re.match(pattern, s): anchored at the start, "." any character, "$" the end
ReMatch(p, s) ==
    CASE p.kind = "mid_end" ->
            /\ EndsWith(s, p.b)
            /\ \E i \in 1..Len(s) :
                  OccursAt(s, p.a, i) /\ i + Len(p.a) <= Len(s) - Len(p.b) + 1
      [] p.kind = "pre_end" ->
            /\ StartsWith(s, p.a)
            /\ EndsWith(s, p.b)
            /\ Len(p.a) + Len(p.b) <= Len(s)
      [] p.kind = "end" -> EndsWith(s, p.a)
      [] p.kind = "netbanking" ->
            \E i \in 1..Len(s) :
               /\ OccursAt(s, p.a, i)
               /\ \E j \in (i + Len(p.a))..Len(s) :
                     /\ s[j] = "."
                     /\ ~OccursAt(s, <<"h","d","f","c","b","a","n","k",".","c","o","m">>, j + 1)
                     /\ ~OccursAt(s, <<"i","c","i","c","i","b","a","n","k",".","c","o","m">>, j + 1)

DOMAIN_KEYWORDS == <<
    <<"v","e","r","i","f","y">>, <<"k","y","c">>, <<"u","p","d","a","t","e">>, <<"s","e","c","u","r","e">>, <<"b","l","o","c","k">>, <<"s","u","s","p","e","n","d","e","d">>,
    <<"r","e","a","c","t","i","v","a","t","e">>, <<"c","o","n","f","i","r","m">>, <<"u","r","g","e","n","t">>, <<"e","x","p","i","r","e">>, <<"b","a","n","k","-","l","o","g","i","n">>,
    <<"n","e","t","-","b","a","n","k","i","n","g">>, <<"a","c","c","o","u","n","t","-","v","e","r","i","f","y">>, <<"c","u","s","t","o","m","e","r","-","c","a","r","e">> >>

\* the index of the first pattern that matches the domain, 0 when none does
FirstPattern(domain) ==
    Least({i \in 1..Len(PHISHING_PATTERNS) : ReMatch(PHISHING_PATTERNS[i], domain)})

\* the index of the first keyword the domain contains, 0 when it contains
\* none or is one of the legitimate domains
FirstKeyword(domain) ==
    LET LEGIT_KEYWORD_DOMAINS ==
            { <<"h","d","f","c","b","a","n","k",".","c","o","m">>, <<"i","c","i","c","i","b","a","n","k",".","c","o","m">>, <<"s","b","i",".","c","o",".","i","n">>, <<"o","n","l","i","n","e","s","b","i",".","s","b","i">> }
    IN Least({i \in 1..Len(DOMAIN_KEYWORDS) :
                 /\ Contains(domain, DOMAIN_KEYWORDS[i])
                 /\ domain \notin LEGIT_KEYWORD_DOMAINS})

\* check_domain_blacklist(url), for a URL that urlparse accepts
check_domain_blacklist(url) ==
    LET Answer(p, k) ==
            IF p > 0
            THEN [is_blacklisted |-> TRUE,
                  reason |-> RA("Phishing pattern detected", PHISHING_PATTERNS[p].a),
                  pattern |-> p]
            ELSE IF k > 0
            THEN [is_blacklisted |-> TRUE,
                  reason |-> RA("Suspicious keyword in domain", DOMAIN_KEYWORDS[k]),
                  keyword |-> k]
            ELSE [is_blacklisted |-> FALSE]
        Check(domain) == Answer(FirstPattern(domain), FirstKeyword(domain))
    IN Check(Lower(Netloc(url)))

\* load_models(): each artifact file is "ok", "missing" or "corrupt" as
\* joblib finds it.  Whether it returns None, the dict it returns otherwise, and
\* the module-level cache after the call.  A corrupt file makes joblib.load
\* raise; the except returns None and keeps what was already put in the
\* module-level dict.
load_models(models, art) ==
    IF DOMAIN models # {} THEN [none |-> FALSE, ret |-> models, models |-> models]
    ELSE IF art.xgb # "ok" THEN [none |-> TRUE, ret |-> EmptyDict, models |-> EmptyDict]
    ELSE LET m1 == [k \in {"xgb"} |-> "obj"]
         IN IF art.iforest = "corrupt" THEN [none |-> TRUE, ret |-> EmptyDict, models |-> m1]
            ELSE LET m2 == [k \in {"xgb", "isolation_forest"} |->
                               IF k = "xgb" THEN "obj"
                               ELSE IF art.iforest = "ok" THEN "obj" ELSE "none"]
                 IN IF art.scaler = "corrupt"
                    THEN [none |-> TRUE, ret |-> EmptyDict, models |-> m2]
                    ELSE LET m3 == [k \in {"xgb", "isolation_forest", "scaler"} |->
                                       IF k = "scaler"
                                       THEN (IF art.scaler = "ok" THEN "obj" ELSE "none")
                                       ELSE m2[k]]
                         IN [none |-> FALSE, ret |-> m3, models |-> m3]

\* models.get(k): truthy when the key is there and holds an object
ModelGet(models, k) == k \in DOMAIN models /\ models[k] = "obj"

\* The generic WARN that validate_url returns from its except clause and
\* when the models are not available
UrlFallback(url, text) ==
    [verdict |-> "WARN", score |-> 50, reasons |-> <<R(text)>>, url |-> url]

\* The ensemble part of validate_url: risk in thousandths from the
\* classifier probability and the anomaly score (hundredths)
RiskThousandths(xgb_prob, if_score) == 8 * xgb_prob + 2 * if_score

\* round(x, 2) of a value in thousandths, to hundredths
Round2(thousandths) == (thousandths + 5) \div 10

UrlVerdict(risk) ==
    IF risk >= 700 THEN "BLOCK" ELSE IF risk >= 400 THEN "WARN" ELSE "OK"

UrlReasons(xgb_prob, risk) ==
    LET byProb == IF xgb_prob >= 70 THEN <<R("High fraud probability")>>
                  ELSE IF xgb_prob >= 50 THEN <<R("Suspicious patterns detected")>>
                  ELSE IF xgb_prob <= 30 THEN <<R("Low fraud probability")>>
                  ELSE <<>>
    IN IF byProb # <<>> THEN byProb
       ELSE IF risk >= 700 THEN <<R("ML analysis indicates high fraud risk")>>
       ELSE IF risk >= 400 THEN <<R("Suspicious - requires additional verification")>>
       ELSE <<R("URL appears legitimate")>>

\* validate_url(url): the result dict and the model cache after the call.
\* env is what the libraries answer: fault ("none", "import": numpy or the
\* feature extractor cannot be imported, "predict": feature extraction or
\* predict_proba raises), xgb_prob, if_score, if_fault (the isolation
\* forest's prediction raises).
validate_url(url, models, art, env) ==
    LET Scored(ld, if_score, risk) ==
            [result |-> [verdict |-> UrlVerdict(risk),
                         score |-> Round2(risk),
                         xgb_prob |-> env.xgb_prob,
                         if_score |-> if_score,
                         reasons |-> UrlReasons(env.xgb_prob, risk),
                         url |-> url],
             models |-> ld.models]
        Predict(ld, if_score) ==
            Scored(ld, if_score, RiskThousandths(env.xgb_prob, if_score))
        WithModels(ld) ==
            IF ld.none \/ DOMAIN ld.ret = {} \/ "xgb" \notin DOMAIN ld.ret
            THEN [result |-> UrlFallback(url, "ML models not available - manual review recommended"),
                  models |-> ld.models]
            ELSE IF env.fault = "predict"
            THEN [result |-> UrlFallback(url, "Validation error"), models |-> ld.models]
            ELSE Predict(ld, IF /\ ModelGet(ld.ret, "isolation_forest")
                                /\ ModelGet(ld.ret, "scaler")
                                /\ ~env.if_fault
                             THEN env.if_score ELSE 50)
        AfterBlacklist(bl) ==
            IF bl.is_blacklisted
            THEN [result |-> [verdict |-> "BLOCK", score |-> 100, xgb_prob |-> 100,
                              if_score |-> 100,
                              reasons |-> <<RA("BLOCKED", bl.reason.arg),
                                            R("Domain matches known phishing pattern")>>,
                              url |-> url, blacklist_match |-> bl],
                  models |-> models]
            ELSE IF env.fault = "import"
            THEN [result |-> UrlFallback(url, "Validation error"), models |-> models]
            ELSE WithModels(load_models(models, art))
    IN IF is_trusted_domain(url)
       THEN [result |-> [verdict |-> "OK", score |-> 0, xgb_prob |-> 0, if_score |-> 0,
                         reasons |-> <<R("Trusted domain (whitelisted)")>>, url |-> url],
             models |-> models]
       ELSE IF UrlparseRaises(url)
       THEN [result |-> UrlFallback(url, "Validation error"), models |-> models]
       ELSE AfterBlacklist(check_domain_blacklist(url))

----------------------------------------------------------------------------
(* stage2_dynamic/headless_browser.py and stage2_validator.py.             *)

\* dict.get(key, default)
Get(d, key, default) == IF key \in DOMAIN d THEN d[key] ELSE default

\* dict.get(key) read as a truth value
Truthy(d, key) == key \in DOMAIN d /\ d[key] = TRUE

BANK_KEYWORDS == { <<"b","a","n","k">>, <<"b","a","n","k","i","n","g">>, <<"n","e","t","b","a","n","k","i","n","g">> }

SUSPICIOUS_TLDS == {
    <<".","s","h","o","p">>, <<".","x","y","z">>, <<".","t","o","p">>, <<".","o","n","l","i","n","e">>, <<".","i","c","u">>, <<".","l","i","v","e">>, <<".","b","u","z","z">>,
    <<".","c","l","i","c","k">>, <<".","g","q">>, <<".","m","l">>, <<".","t","k">>, <<".","g","a">>, <<".","c","f">> }

\* headless_browser.is_trusted_domain(domain): one leading "www." removed
StripWww(domain) == IF StartsWith(domain, <<"w","w","w",".">>) THEN From(domain, 5) ELSE domain

s2_is_trusted_domain(d) ==
    LET Trusted(domain) ==
            \/ domain \in TRUSTED_DOMAINS
            \/ \E trusted \in TRUSTED_DOMAINS :
                  EndsWith(domain, <<".">> \o trusted) \/ domain = trusted
    IN Trusted(StripWww(Lower(d)))

is_likely_bank_domain(d) ==
    LET Likely(domain) ==
            /\ \E kw \in BANK_KEYWORDS : Contains(domain, kw)
            /\ \E tld \in { <<".","i","n">>, <<".","c","o",".","i","n">>, <<".","o","r","g",".","i","n">>, <<".","c","o","m">> } : EndsWith(domain, tld)
            /\ ~\E tld \in SUSPICIOUS_TLDS : EndsWith(domain, tld)
    IN Likely(Lower(d))

S2_DOMAIN_KEYWORDS ==
    { <<"c","a","s","h","b","a","c","k">>, <<"r","e","w","a","r","d">>, <<"b","o","n","u","s">>, <<"f","r","e","e","-","m","o","n","e","y">>, <<"i","n","s","t","a","n","t","-","w","i","n">>, <<"v","e","r","i","f","y">> }

\* brands, in the dict's order: the brand token and its official domain
BRANDS == <<
    [brand |-> <<"p","a","y","t","m">>, official |-> <<"p","a","y","t","m",".","c","o","m">>],
    [brand |-> <<"p","h","o","n","e","p","e">>, official |-> <<"p","h","o","n","e","p","e",".","c","o","m">>],
    [brand |-> <<"g","p","a","y">>, official |-> <<"p","a","y",".","g","o","o","g","l","e",".","c","o","m">>],
    [brand |-> <<"g","o","o","g","l","e","p","a","y">>, official |-> <<"p","a","y",".","g","o","o","g","l","e",".","c","o","m">>],
    [brand |-> <<"s","b","i">>, official |-> <<"o","n","l","i","n","e","s","b","i",".","s","b","i">>],
    [brand |-> <<"h","d","f","c">>, official |-> <<"h","d","f","c","b","a","n","k",".","c","o","m">>],
    [brand |-> <<"i","c","i","c","i">>, official |-> <<"i","c","i","c","i","b","a","n","k",".","c","o","m">>],
    [brand |-> <<"a","x","i","s">>, official |-> <<"a","x","i","s","b","a","n","k",".","c","o","m">>],
    [brand |-> <<"k","o","t","a","k">>, official |-> <<"k","o","t","a","k",".","c","o","m">>] >>

\* the brand loop of scan_url_headless: some brand token is in the host, the
\* host does not end in that brand's official domain and is not trusted
ImpersonatesBrand(domain) ==
    \E i \in 1..Len(BRANDS) :
       /\ Contains(domain, BRANDS[i].brand)
       /\ ~EndsWith(domain, BRANDS[i].official)
       /\ ~s2_is_trusted_domain(domain)

\* The scanner's own thresholds on its risk (thousandths)
ScanVerdict(bankDown, risk) ==
    IF bankDown
    THEN (IF risk >= 600 THEN "BLOCK" ELSE "WARN")
    ELSE (IF risk >= 750 THEN "BLOCK" ELSE IF risk >= 450 THEN "WARN" ELSE "OK")

\* The blend of the rule score with the Stage 2 model's probability
\* (hundredths), in thousandths
Blend(ml, risk) ==
    IF ml < 30 /\ risk < 600 THEN (4 * ml * 10 + 6 * risk) \div 10
    ELSE (6 * ml * 10 + 4 * risk) \div 10

\* scan_url_headless(url).  net is what the network and the Stage 2 model
\* answer: fetch ("fail": requests raises Timeout or RequestException;
\* "raise": any other exception; "ok": a response), final (the host of response.url), the page's content
\* tests login, otp, banking and sensitive, and ml (the model's probability
\* in hundredths, -1 when the model or its scaler is not there).
scan_url_headless(url, net) ==
    LET InitialFlags ==
            [redirects_to_different_domain |-> FALSE, has_password_field |-> FALSE,
             has_otp_field |-> FALSE, mimics_banking_ui |-> FALSE,
             requests_sensitive_info |-> FALSE, suspicious_javascript |-> FALSE,
             suspicious_domain |-> FALSE, connection_failed |-> FALSE,
             trusted_domain |-> FALSE]
        Flags(suspicious, redirected) ==
            [InitialFlags EXCEPT
                !.suspicious_domain = suspicious,
                !.redirects_to_different_domain = redirected,
                !.has_password_field = (net.fetch = "ok" /\ net.login),
                !.has_otp_field = (net.fetch = "ok" /\ net.otp),
                !.mimics_banking_ui = (net.fetch = "ok" /\ net.banking),
                !.requests_sensitive_info = (net.fetch = "ok" /\ net.sensitive),
                !.connection_failed = (net.fetch # "ok")]
        WithMlScore(base) ==
            IF net.ml >= 0
            THEN [k \in DOMAIN base \cup {"ml_score"} |->
                     IF k = "ml_score" THEN net.ml ELSE base[k]]
            ELSE base
        \* the verdict from the final risk_score, and the dict returned
        Report(bankDown, suspicious, redirected, risk) ==
            WithMlScore([success |-> TRUE,
                         verdict |-> ScanVerdict(bankDown, risk),
                         score |-> Round2(Min(risk, 1000)),
                         behavioral_flags |-> Flags(suspicious, redirected),
                         url |-> url])
        \* the page fetch, the redirect check and the content analysis on
        \* top of the domain rules' score r0
        Fetch(domain, looks_like_bank, suspicious, r0, redirect_check, redirected) ==
            IF net.fetch = "raise"
            THEN [success |-> FALSE, error |-> <<"u","n","e","x","p","e","c","t","e","d"," ","e","r","r","o","r">>, url |-> url,
                  verdict |-> "WARN", score |-> 50]
            ELSE IF redirected /\ s2_is_trusted_domain(redirect_check)
            THEN [success |-> TRUE, verdict |-> "OK", score |-> 10,
                  behavioral_flags |-> [redirects_to_trusted_domain |-> TRUE],
                  url |-> url,
                  reason |-> RA("Redirects to trusted domain", Lower(net.final))]
            ELSE Report(looks_like_bank /\ net.fetch # "ok", suspicious, redirected,
                        (LET r1 == IF net.fetch = "ok"
                                   THEN r0 + (IF redirected THEN 150 ELSE 0)
                                           + (IF net.login /\ suspicious THEN 150 ELSE 0)
                                           + (IF net.otp /\ suspicious THEN 200 ELSE 0)
                                           + (IF net.banking /\ suspicious THEN 250 ELSE 0)
                                           + (IF net.sensitive /\ suspicious THEN 300 ELSE 0)
                                   ELSE r0 + (IF looks_like_bank /\ ~s2_is_trusted_domain(domain)
                                              THEN 500
                                              ELSE IF suspicious THEN 400 ELSE 250)
                         IN IF net.ml >= 0 THEN Blend(net.ml, r1) ELSE r1))
        \* the domain rules: suspicious TLD, keywords, brand impersonation
        Rules(domain, badTld, keyword_count, brandHit, redirect_check) ==
            Fetch(domain, is_likely_bank_domain(domain), badTld \/ brandHit,
                  (IF badTld THEN 350 ELSE 0)
                     + (IF keyword_count >= 2 \/ (keyword_count >= 1 /\ badTld)
                        THEN 250 ELSE 0)
                     + (IF brandHit THEN 400 ELSE 0),
                  redirect_check,
                  net.fetch = "ok" /\ redirect_check # domain)
        Scan(domain) ==
            IF s2_is_trusted_domain(domain)
            THEN [url |-> url, risk_score |-> 0, verdict |-> "OK",
                  behavioral_flags |-> [trusted_domain |-> TRUE],
                  features |-> EmptyDict,
                  reason |-> R("Trusted domain - bypassed scanning")]
            ELSE Rules(domain,
                       \E tld \in SUSPICIOUS_TLDS : EndsWith(domain, tld),
                       Cardinality({kw \in S2_DOMAIN_KEYWORDS : Contains(domain, kw)}),
                       ImpersonatesBrand(domain),
                       StripWww(Lower(net.final)))
    IN IF UrlparseRaises(url)
       THEN [success |-> FALSE, error |-> <<"I","n","v","a","l","i","d"," ","I","P","v","6"," ","U","R","L">>, url |-> url,
             verdict |-> "WARN", score |-> 50]
       ELSE Scan(Replace(Lower(Netloc(url)), <<"w","w","w",".">>, <<>>))

\* The verdict validate_url_stage2 derives from the score it read
Stage2Verdict(score) ==
    IF score >= 70 THEN "BLOCK" ELSE IF score >= 40 THEN "WARN" ELSE "OK"

\* What validate_url_stage2 returns when Stage 2 did not succeed
Stage2Failure(text) ==
    [success |-> FALSE, verdict |-> "WARN", score |-> 50, reason |-> R(text)]

\* validate_url_stage2(url) on the scanner's result: the score is read from
\* the key "risk_score", 0.5 when the result has none
AdaptScan(result) ==
    LET score == Get(result, "risk_score", 50)
        flags == Get(result, "behavioral_flags", EmptyDict)
    IN IF Truthy(flags, "trusted_domain")
       THEN [success |-> TRUE, verdict |-> "OK", score |-> 0,
             features |-> Get(result, "features", EmptyDict),
             behavioral |-> flags,
             reason |-> R("Trusted domain - whitelisted")]
       ELSE IF "error" \in DOMAIN result /\ result.error # <<>>
       THEN Stage2Failure("Browser scan error")
       ELSE [success |-> TRUE, verdict |-> Stage2Verdict(score), score |-> score,
             features |-> Get(result, "features", EmptyDict),
             behavioral |-> flags,
             reason |-> R(CASE score >= 70 -> "High-risk patterns detected by headless browser"
                            [] score >= 40 /\ score < 70 ->
                                  "Suspicious behavior detected, manual review recommended"
                            [] OTHER -> "No significant threats detected")]

\* validate_url_stage2(url): s2.fault is "import" when the scanner module
\* cannot be imported (its top-level "import requests" fails); the except
\* clause answers for every exception
validate_url_stage2(url, s2) ==
    IF s2.fault = "import" THEN Stage2Failure("Stage 2 error")
    ELSE AdaptScan(scan_url_headless(url, s2.net))

----------------------------------------------------------------------------
(* qr_validation/vpa_validator.py, qr_parser.py and qr_utils.py.           *)

KNOWN_PROVIDERS == {
    [provider |-> <<"o","k","s","b","i">>, name |-> <<"S","t","a","t","e"," ","B","a","n","k"," ","o","f"," ","I","n","d","i","a">>],
    [provider |-> <<"s","b","i">>, name |-> <<"S","t","a","t","e"," ","B","a","n","k"," ","o","f"," ","I","n","d","i","a">>],
    [provider |-> <<"o","k","h","d","f","c","b","a","n","k">>, name |-> <<"H","D","F","C"," ","B","a","n","k">>],
    [provider |-> <<"h","d","f","c","b","a","n","k">>, name |-> <<"H","D","F","C"," ","B","a","n","k">>],
    [provider |-> <<"o","k","a","x","i","s">>, name |-> <<"A","x","i","s"," ","B","a","n","k">>],
    [provider |-> <<"a","x","i","s","b","a","n","k">>, name |-> <<"A","x","i","s"," ","B","a","n","k">>],
    [provider |-> <<"o","k","i","c","i","c","i">>, name |-> <<"I","C","I","C","I"," ","B","a","n","k">>],
    [provider |-> <<"i","c","i","c","i">>, name |-> <<"I","C","I","C","I"," ","B","a","n","k">>],
    [provider |-> <<"f","e","d","e","r","a","l">>, name |-> <<"F","e","d","e","r","a","l"," ","B","a","n","k">>],
    [provider |-> <<"p","n","b">>, name |-> <<"P","u","n","j","a","b"," ","N","a","t","i","o","n","a","l"," ","B","a","n","k">>],
    [provider |-> <<"b","o","i">>, name |-> <<"B","a","n","k"," ","o","f"," ","I","n","d","i","a">>],
    [provider |-> <<"c","i","t","i">>, name |-> <<"C","i","t","i","b","a","n","k">>],
    [provider |-> <<"s","c">>, name |-> <<"S","t","a","n","d","a","r","d"," ","C","h","a","r","t","e","r","e","d">>],
    [provider |-> <<"r","b","l">>, name |-> <<"R","B","L"," ","B","a","n","k">>],
    [provider |-> <<"k","o","t","a","k">>, name |-> <<"K","o","t","a","k"," ","M","a","h","i","n","d","r","a"," ","B","a","n","k">>],
    [provider |-> <<"i","n","d","u","s","i","n","d">>, name |-> <<"I","n","d","u","s","I","n","d"," ","B","a","n","k">>],
    [provider |-> <<"y","e","s","b","a","n","k">>, name |-> <<"Y","e","s"," ","B","a","n","k">>],
    [provider |-> <<"i","d","b","i">>, name |-> <<"I","D","B","I"," ","B","a","n","k">>],
    [provider |-> <<"u","n","i","o","n","b","a","n","k">>, name |-> <<"U","n","i","o","n"," ","B","a","n","k">>],
    [provider |-> <<"c","a","n","a","r","a">>, name |-> <<"C","a","n","a","r","a"," ","B","a","n","k">>],
    [provider |-> <<"b","o","b">>, name |-> <<"B","a","n","k"," ","o","f"," ","B","a","r","o","d","a">>],
    [provider |-> <<"p","a","y","t","m">>, name |-> <<"P","a","y","t","m">>],
    [provider |-> <<"p","a","y","t","m","q","r">>, name |-> <<"P","a","y","t","m"," ","Q","R">>],
    [provider |-> <<"p","t","h","d","f","c">>, name |-> <<"P","a","y","t","m"," ","(","H","D","F","C",")">>],
    [provider |-> <<"p","t","a","x","i","s">>, name |-> <<"P","a","y","t","m"," ","(","A","x","i","s",")">>],
    [provider |-> <<"p","t","s","b","i">>, name |-> <<"P","a","y","t","m"," ","(","S","B","I",")">>],
    [provider |-> <<"y","b","l">>, name |-> <<"P","h","o","n","e","P","e">>],
    [provider |-> <<"p","h","o","n","e","p","e">>, name |-> <<"P","h","o","n","e","P","e">>],
    [provider |-> <<"a","p","l">>, name |-> <<"A","m","a","z","o","n"," ","P","a","y">>],
    [provider |-> <<"a","m","a","z","o","n","p","a","y">>, name |-> <<"A","m","a","z","o","n"," ","P","a","y">>],
    [provider |-> <<"i","b","l">>, name |-> <<"B","H","I","M"," ","(","A","x","i","s",")">>],
    [provider |-> <<"b","i","m">>, name |-> <<"B","H","I","M">>],
    [provider |-> <<"g","p","a","y">>, name |-> <<"G","o","o","g","l","e"," ","P","a","y">>],
    [provider |-> <<"g","o","o","g","l","e","p","a","y">>, name |-> <<"G","o","o","g","l","e"," ","P","a","y">>],
    [provider |-> <<"o","k","g","p","a","y">>, name |-> <<"G","o","o","g","l","e"," ","P","a","y">>],
    [provider |-> <<"f","b","l">>, name |-> <<"F","r","e","e","c","h","a","r","g","e">>],
    [provider |-> <<"f","r","e","e","c","h","a","r","g","e">>, name |-> <<"F","r","e","e","c","h","a","r","g","e">>],
    [provider |-> <<"m","o","b","i","k","w","i","k">>, name |-> <<"M","o","b","i","K","w","i","k">>],
    [provider |-> <<"o","l","a">>, name |-> <<"O","l","a"," ","M","o","n","e","y">>],
    [provider |-> <<"j","i","o">>, name |-> <<"J","i","o"," ","M","o","n","e","y">>],
    [provider |-> <<"a","i","r","t","e","l">>, name |-> <<"A","i","r","t","e","l"," ","P","a","y","m","e","n","t","s"," ","B","a","n","k">>],
    [provider |-> <<"a","i","r","t","e","l","b","a","n","k">>, name |-> <<"A","i","r","t","e","l"," ","P","a","y","m","e","n","t","s"," ","B","a","n","k">>],
    [provider |-> <<"p","o","s","t","b","a","n","k">>, name |-> <<"I","n","d","i","a"," ","P","o","s","t"," ","P","a","y","m","e","n","t","s"," ","B","a","n","k">>],
    [provider |-> <<"p","a","y","z","a","p","p">>, name |-> <<"P","a","y","Z","a","p","p"," ","(","H","D","F","C",")">>],
    [provider |-> <<"p","o","c","k","e","t","s">>, name |-> <<"P","o","c","k","e","t","s"," ","(","I","C","I","C","I",")">>],
    [provider |-> <<"i","m","o","b","i","l","e">>, name |-> <<"i","M","o","b","i","l","e"," ","(","I","C","I","C","I",")">>],
    [provider |-> <<"r","a","z","o","r","p","a","y">>, name |-> <<"R","a","z","o","r","p","a","y">>],
    [provider |-> <<"i","n","s","t","a","m","o","j","o">>, name |-> <<"I","n","s","t","a","m","o","j","o">>],
    [provider |-> <<"c","a","s","h","f","r","e","e">>, name |-> <<"C","a","s","h","f","r","e","e">>],
    [provider |-> <<"c","c","a","v","e","n","u","e">>, name |-> <<"C","C","A","v","e","n","u","e">>],
    [provider |-> <<"b","i","l","l","d","e","s","k">>, name |-> <<"B","i","l","l","D","e","s","k">>],
    [provider |-> <<"b","h","a","r","a","t","p","e">>, name |-> <<"B","h","a","r","a","t","P","e">>],
    [provider |-> <<"p","h","o","n","e","p","e","q","r">>, name |-> <<"P","h","o","n","e","P","e"," ","Q","R">>],
    [provider |-> <<"s","u","p","e","r","y","e","s">>, name |-> <<"S","u","p","e","r","M","o","n","e","y">>],
    [provider |-> <<"s","u","p","e","r","m","o","n","e","y">>, name |-> <<"S","u","p","e","r","M","o","n","e","y">>],
    [provider |-> <<"s","a","r","a","s","w","a","t">>, name |-> <<"S","a","r","a","s","w","a","t"," ","B","a","n","k">>],
    [provider |-> <<"k","v","b">>, name |-> <<"K","a","r","u","r"," ","V","y","s","y","a"," ","B","a","n","k">>],
    [provider |-> <<"d","c","b">>, name |-> <<"D","C","B"," ","B","a","n","k">>],
    [provider |-> <<"t","a","m","i","l","n","a","d","m","e","r","c","a","n","t","i","l","e">>, name |-> <<"T","a","m","i","l","n","a","d"," ","M","e","r","c","a","n","t","i","l","e"," ","B","a","n","k">>],
    [provider |-> <<"j","k","b">>, name |-> <<"J","a","m","m","u"," ","&"," ","K","a","s","h","m","i","r"," ","B","a","n","k">>],
    [provider |-> <<"i","o","b">>, name |-> <<"I","n","d","i","a","n"," ","O","v","e","r","s","e","a","s"," ","B","a","n","k">>],
    [provider |-> <<"i","n","d","i","a","n","b","a","n","k">>, name |-> <<"I","n","d","i","a","n"," ","B","a","n","k">>],
    [provider |-> <<"c","o","r","p","b","a","n","k">>, name |-> <<"C","o","r","p","o","r","a","t","i","o","n"," ","B","a","n","k">>],
    [provider |-> <<"e","q","u","i","t","a","s">>, name |-> <<"E","q","u","i","t","a","s"," ","S","m","a","l","l"," ","F","i","n","a","n","c","e"," ","B","a","n","k">>],
    [provider |-> <<"u","j","j","i","v","a","n">>, name |-> <<"U","j","j","i","v","a","n"," ","S","m","a","l","l"," ","F","i","n","a","n","c","e"," ","B","a","n","k">>],
    [provider |-> <<"a","u">>, name |-> <<"A","U"," ","S","m","a","l","l"," ","F","i","n","a","n","c","e"," ","B","a","n","k">>],
    [provider |-> <<"f","i","n","o">>, name |-> <<"F","i","n","o"," ","P","a","y","m","e","n","t","s"," ","B","a","n","k">>],
    [provider |-> <<"j","a","n","a","b","a","n","k">>, name |-> <<"J","a","n","a"," ","S","m","a","l","l"," ","F","i","n","a","n","c","e"," ","B","a","n","k">>],
    [provider |-> <<"s","b","i","c","a","r","d">>, name |-> <<"S","B","I"," ","C","a","r","d">>],
    [provider |-> <<"a","x","i","s","c","a","r","d">>, name |-> <<"A","x","i","s"," ","B","a","n","k"," ","C","r","e","d","i","t"," ","C","a","r","d">>],
    [provider |-> <<"h","d","f","c","c","a","r","d">>, name |-> <<"H","D","F","C"," ","C","r","e","d","i","t"," ","C","a","r","d">>],
    [provider |-> <<"i","c","i","c","i","c","a","r","d">>, name |-> <<"I","C","I","C","I"," ","C","r","e","d","i","t"," ","C","a","r","d">>] }

\* re.match(r'^[a-zA-Z0-9.\-_]{lo1,hi1}@[a-zA-Z0-9.\-_]{lo2,hi2}$', s): "$"
\* lets the match end before one trailing newline
MatchVpa(s, lo1, hi1, lo2, hi2) ==
    LET VpaChar(c) == IsAlnum(c) \/ c \in {".", "-", "_"}
        Shape(t, at) ==
            /\ at > 0
            /\ \A k \in 1..Len(t) : k # at => VpaChar(t[k])
            /\ at - 1 >= lo1 /\ at - 1 <= hi1
            /\ Len(t) - at >= lo2 /\ Len(t) - at <= hi2
        Match(t) == Shape(t, Find(t, <<"@">>))
    IN Match(IF Len(s) > 0 /\ s[Len(s)] = "\n" THEN SubSeq(s, 1, Len(s) - 1) ELSE s)

\* validate_vpa_format(vpa)
validate_vpa_format(vpa) ==
    LET Verified(name) ==
            [verdict |-> "OK", risk_score |-> 10,
             reasons |-> <<R("Valid VPA format"), RA("Verified provider", name)>>,
             provider |-> name]
        \* known is KNOWN_PROVIDERS restricted to the key provider
        Lookup(provider, known) ==
            IF known # {}
            THEN Verified((CHOOSE p \in known : TRUE).name)
            ELSE [verdict |-> "WARN", risk_score |-> 50,
                  reasons |-> <<R("Valid VPA format"),
                                RA("Unrecognized payment provider", provider),
                                R("This might be a new or regional provider"),
                                R("Verify merchant authenticity before paying")>>,
                  provider |-> provider]
        ByProvider(provider) ==
            Lookup(provider, {p \in KNOWN_PROVIDERS : p.provider = provider})
    IN IF ~MatchVpa(vpa, 2, 256, 2, 128)
       THEN [verdict |-> "BLOCK", risk_score |-> 90,
             reasons |-> <<R("Invalid VPA format")>>, provider |-> <<>>]
       ELSE ByProvider(Lower(AfterLast(vpa, "@")))

\* the payment-app keywords of identify_qr_content_type
PAYMENT_KEYWORDS ==
    { <<"b","h","i","m">>, <<"p","h","o","n","e","p","e">>, <<"p","a","y","t","m","m","p">>, <<"p","a","y","t","m","q","r">>, <<"b","h","a","r","a","t","p","e">>, <<"g","p","a","y">> }

\* a classifier that tests the upi:// prefix before the payment-app keywords
identify_upi_first(data) ==
    LET data_lower == Lower(data)
        \* str.isalnum(): non-empty and every character a letter or a digit
        IsAlnumStr(s) == Len(s) > 0 /\ \A k \in 1..Len(s) : IsAlnum(s[k])
    IN IF StartsWith(data, <<"0","0","0","2","0","1","0","1">>) \/ StartsWith(data, <<"0","0","0","2","0","2","0","1">>)
       THEN "protected_payment"
       ELSE IF StartsWith(data, <<"u","p","i",":","/","/">>) \/ StartsWith(data, <<"u","p","i",":","/","/","p","a","y">>)
       THEN "upi"
       ELSE IF /\ ~StartsWith(data, <<"h","t","t","p">>)
               /\ \E kw \in PAYMENT_KEYWORDS : Contains(data_lower, kw)
       THEN "protected_payment"
       ELSE IF StartsWith(data, <<"h","t","t","p",":","/","/">>) \/ StartsWith(data, <<"h","t","t","p","s",":","/","/">>)
       THEN "url"
       ELSE IF /\ Contains(data, <<"@">>)
               /\ ~StartsWith(data, <<"h","t","t","p">>)
               /\ ~StartsWith(data, <<"u","p","i">>)
               /\ ~StartsWith(data, <<"m","a","i","l","t","o">>)
               /\ MatchVpa(data, 2, Len(data), 2, Len(data))
       THEN "vpa"
       ELSE IF StartsWith(data, <<"g","e","o",":">>) \/ Contains(data, <<"g","o","o","g","l","e",".","n","a","v","i","g","a","t","i","o","n",":">>)
       THEN "geo"
       ELSE IF StartsWith(data, <<"t","e","l",":">>) THEN "tel"
       ELSE IF StartsWith(data, <<"m","a","i","l","t","o",":">>) THEN "mailto"
       ELSE IF StartsWith(data, <<"s","m","s",":">>) THEN "sms"
       ELSE IF StartsWith(data, <<"W","I","F","I",":">>) THEN "wifi"
       ELSE IF StartsWith(data, <<"B","E","G","I","N",":","V","C","A","R","D">>) THEN "vcard"
       ELSE IF StartsWith(data, <<"i","n","t","e","n","t",":","/","/">>) THEN "intent"
       ELSE IF /\ Len(data) < 200
               /\ IsAlnumStr(Replace(Replace(Replace(Replace(data,
                      <<" ">>, <<>>), <<"-">>, <<>>), <<"_">>, <<>>), <<"\n">>, <<>>))
       THEN "text"
       ELSE "unknown"

\* identify_qr_content_type(data): the first rule that matches
identify_qr_content_type(data) ==
    LET data_lower == Lower(data)
        \* str.isalnum(): non-empty and every character a letter or a digit
        IsAlnumStr(s) == Len(s) > 0 /\ \A k \in 1..Len(s) : IsAlnum(s[k])
    IN IF StartsWith(data, <<"0","0","0","2","0","1","0","1">>) \/ StartsWith(data, <<"0","0","0","2","0","2","0","1">>)
       THEN "protected_payment"
       ELSE IF /\ ~StartsWith(data, <<"h","t","t","p">>)
               /\ \E kw \in PAYMENT_KEYWORDS : Contains(data_lower, kw)
       THEN "protected_payment"
       ELSE IF StartsWith(data, <<"u","p","i",":","/","/">>) \/ StartsWith(data, <<"u","p","i",":","/","/","p","a","y">>)
       THEN "upi"
       ELSE IF StartsWith(data, <<"h","t","t","p",":","/","/">>) \/ StartsWith(data, <<"h","t","t","p","s",":","/","/">>)
       THEN "url"
       ELSE IF /\ Contains(data, <<"@">>)
               /\ ~StartsWith(data, <<"h","t","t","p">>)
               /\ ~StartsWith(data, <<"u","p","i">>)
               /\ ~StartsWith(data, <<"m","a","i","l","t","o">>)
               /\ MatchVpa(data, 2, Len(data), 2, Len(data))
       THEN "vpa"
       ELSE IF StartsWith(data, <<"g","e","o",":">>) \/ Contains(data, <<"g","o","o","g","l","e",".","n","a","v","i","g","a","t","i","o","n",":">>)
       THEN "geo"
       ELSE IF StartsWith(data, <<"t","e","l",":">>) THEN "tel"
       ELSE IF StartsWith(data, <<"m","a","i","l","t","o",":">>) THEN "mailto"
       ELSE IF StartsWith(data, <<"s","m","s",":">>) THEN "sms"
       ELSE IF StartsWith(data, <<"W","I","F","I",":">>) THEN "wifi"
       ELSE IF StartsWith(data, <<"B","E","G","I","N",":","V","C","A","R","D">>) THEN "vcard"
       ELSE IF StartsWith(data, <<"i","n","t","e","n","t",":","/","/">>) THEN "intent"
       ELSE IF /\ Len(data) < 200
               /\ IsAlnumStr(Replace(Replace(Replace(Replace(data,
                      <<" ">>, <<>>), <<"-">>, <<>>), <<"_">>, <<>>), <<"\n">>, <<>>))
       THEN "text"
       ELSE "unknown"

\* re.search(r'pa=([^&]+)', text): whether "pa=" is somewhere followed by a
\* character other than "&", and group(1) of the first such match, which
\* runs up to the next "&" or the end
ExtractPa(text) ==
    LET Group(i) ==
            IF i = 0 THEN [found |-> FALSE, vpa |-> <<>>]
            ELSE [found |-> TRUE,
                  vpa |-> SubSeq(text, i + 3,
                                 Least({k \in (i + 3)..(Len(text) + 1) :
                                           k = Len(text) + 1 \/ text[k] = "&"}) - 1)]
    IN Group(Least({i \in 1..Len(text) :
                       /\ OccursAt(text, <<"p","a","=">>, i)
                       /\ i + 3 <= Len(text)
                       /\ text[i + 3] # "&"}))

\* parse_qr_image(file_data) on what decode_qr returned: decoded.found is
\* FALSE when decode_qr returned None (no QR code in the image, or the
\* image could not be opened)
parse_qr_image(decoded) ==
    LET Parsed(qr_type, pa) ==
            IF qr_type = "upi" /\ pa.found
            THEN [type |-> qr_type, data |-> decoded.data, vpa |-> pa.vpa]
            ELSE [type |-> qr_type, data |-> decoded.data]
    IN IF ~decoded.found \/ decoded.data = <<>>
       THEN [error |-> <<"N","o"," ","Q","R"," ","c","o","d","e"," ","f","o","u","n","d"," ","i","n"," ","i","m","a","g","e">>]
       ELSE Parsed(identify_qr_content_type(decoded.data), ExtractPa(decoded.data))

\* get_qr_description(qr_type, data): (verdict, risk_score, reasons)
get_qr_description(qr_type) ==
    CASE qr_type = "protected_payment" ->
            <<"OK", 5, <<R("Encrypted payment QR code"),
                         R("Can only be processed within official payment app"),
                         R("Protected against tampering - Safe to scan")>> >>
      [] qr_type = "upi" ->
            <<"OK", 20, <<R("Standard UPI payment QR"), R("VPA will be validated")>> >>
      [] qr_type = "geo" ->
            <<"OK", 10, <<R("Location/Navigation QR"), R("Safe - Opens in maps app")>> >>
      [] qr_type = "vpa" ->
            <<"OK", 20, <<R("Plain VPA address"), R("Payment provider will be validated")>> >>
      [] qr_type = "tel" ->
            <<"OK", 10, <<R("Phone number"), R("Safe - Opens dialer")>> >>
      [] qr_type = "mailto" ->
            <<"OK", 10, <<R("Email address"), R("Safe - Opens email client")>> >>
      [] qr_type = "sms" ->
            <<"OK", 10, <<R("SMS/Message"), R("Safe - Opens messaging app")>> >>
      [] qr_type = "wifi" ->
            <<"OK", 10, <<R("WiFi credentials"), R("Safe - For network connection")>> >>
      [] qr_type = "vcard" ->
            <<"OK", 10, <<R("Contact card"), R("Safe - Adds contact")>> >>
      [] qr_type = "intent" ->
            <<"OK", 15, <<R("App intent"), R("Opens specific application")>> >>
      [] qr_type = "text" ->
            <<"OK", 15, <<R("Plain text/code"), R("No fraud indicators")>> >>
      [] qr_type = "url" ->
            <<"WARN", 50, <<R("URL detected - Running ML analysis..."),
                            R("All URLs are validated through 2-stage detection"),
                            R("No domain is whitelisted by default")>> >>
      [] qr_type = "unknown" ->
            <<"WARN", 40, <<R("Unknown QR format"), R("Scan with caution")>> >>
      [] OTHER -> <<"WARN", 50, <<R("Unknown QR type")>> >>

----------------------------------------------------------------------------
(* backend/orchestrator.py: the four validation paths.                     *)

\* The reasons validate_link builds from a successful Stage 2 result
Stage2Reasons(stage2_result) ==
    LET behavioral == Get(stage2_result, "behavioral", EmptyDict)
        head == IF Truthy(behavioral, "trusted_domain")
                THEN <<R("Verified safe by headless browser scan")>>
                ELSE IF Truthy(behavioral, "connection_failed")
                THEN <<R("Headless browser: Site unreachable")>>
                ELSE <<R("Analyzed by headless browser")>>
        Flag(key, text) == IF Truthy(behavioral, key) THEN <<R(text)>> ELSE <<>>
    IN head
       \o Flag("suspicious_domain", "Browser detected: Suspicious domain pattern")
       \o Flag("has_password_field", "Browser detected: Password input field")
       \o Flag("has_otp_field", "Browser detected: OTP input field")
       \o Flag("mimics_banking_ui", "Browser detected: Fake banking interface")
       \o Flag("redirects_to_different_domain", "Browser detected: Suspicious redirect")
       \o Flag("suspicious_javascript", "Browser detected: Malicious JavaScript")

\* "if stage2_result and stage2_result.get('success')"
Stage2Succeeded(stage2_result) ==
    stage2_result # None /\ Truthy(stage2_result, "success")

\* The final verdict of the link path when Stage 2 succeeded
CombineVerdict(stage1_verdict, stage2_verdict) ==
    IF stage1_verdict = "BLOCK" \/ stage2_verdict = "BLOCK" THEN "BLOCK"
    ELSE IF stage1_verdict = "WARN" \/ stage2_verdict = "WARN" THEN "WARN"
    ELSE "OK"

\* The final score of the link path when Stage 2 succeeded
CombineScore(stage1_score, stage2_score) == Max(stage1_score, stage2_score)

\* Whether validate_link runs Stage 2 after a Stage 1 verdict
TriggersStage2(stage1_verdict) == stage1_verdict \in {"WARN", "BLOCK"}

\* What the outer except of validate_link returns
LinkError(url) ==
    [input |-> [type |-> <<"l","i","n","k">>, value |-> url],
     error |-> <<"s","t","a","g","e"," ","1"," ","i","m","p","o","r","t"," ","f","a","i","l","e","d">>,
     final_verdict |-> "WARN",
     risk_score |-> 50,
     reasons |-> <<R("Validation error")>>]

\* validate_link(url): the result, the model cache after the call and the
\* validators the path turned to, in order (the import of a validator
\* together with its call).  env.link_fault: importing the Stage 1
\* validator raises (the outer except answers); env.s1: what Stage 1's
\* libraries answer; env.s2_raise: importing or calling the Stage 2
\* validator raises (the inner except answers); env.s2: what Stage 2's
\* libraries and the network answer.
validate_link(url, models, art, env) ==
    LET \* ml is what Stage 1 answered, returned what Stage 2 answered (None
        \* when it was not run or raised)
        Combine(ml, returned) ==
            LET ml_result == ml.result
                stage1_verdict == Get(ml_result, "verdict", "WARN")
                stage1_score == Get(ml_result, "score", 50)
                stage1_reasons == Get(ml_result, "reasons", <<>>)
                runs2 == TriggersStage2(stage1_verdict)
                stage2_reasons ==
                    IF ~runs2 THEN <<>>
                    ELSE IF env.s2_raise THEN <<R("Browser scan failed")>>
                    ELSE IF Stage2Succeeded(returned) THEN Stage2Reasons(returned)
                    ELSE <<>>
                stage2_result ==
                    IF Stage2Succeeded(returned)
                    THEN With(returned, "reasons", stage2_reasons)
                    ELSE returned
                all_reasons == Prefix(stage1_reasons, 2) \o stage2_reasons
                ok2 == Stage2Succeeded(stage2_result)
                final_verdict ==
                    IF ok2
                    THEN CombineVerdict(stage1_verdict, Get(stage2_result, "verdict", "WARN"))
                    ELSE stage1_verdict
                final_score ==
                    IF ok2
                    THEN CombineScore(stage1_score, Get(stage2_result, "score", 50))
                    ELSE stage1_score
            IN [result |->
                    [input |-> [type |-> <<"l","i","n","k">>, value |-> url],
                     stage1 |-> [verdict |-> stage1_verdict, score |-> stage1_score,
                                 reasons |-> stage1_reasons],
                     stage2 |-> stage2_result,
                     final_verdict |-> final_verdict,
                     risk_score |-> final_score,
                     reasons |-> IF all_reasons # <<>> THEN all_reasons
                                 ELSE <<R("Analysis completed")>>],
                models |-> ml.models,
                calls |-> IF runs2 THEN <<"stage1", "stage2">> ELSE <<"stage1">>]
        Stage2(ml) ==
            Combine(ml, IF /\ TriggersStage2(Get(ml.result, "verdict", "WARN"))
                           /\ ~env.s2_raise
                        THEN validate_url_stage2(url, env.s2)
                        ELSE None)
    IN IF env.link_fault
       THEN [result |-> LinkError(url), models |-> models, calls |-> <<"stage1">>]
       ELSE Stage2(validate_url(url, models, art, env.s1))

\* urllib.parse.unquote(s) for the escapes of ESCAPES (the inputs hold no
\* other): "%" followed by two hex digits becomes the character they encode
ESCAPES == { [hex |-> <<"4","0">>, char |-> "@"], [hex |-> <<"2","E">>, char |-> "."],
             [hex |-> <<"2","e">>, char |-> "."], [hex |-> <<"2","0">>, char |-> " "] }

\* a VPA path that does not decode its value
NoUnquote(s) == s

RECURSIVE unquote(_)
unquote(s) ==
    LET Decode(i) ==
            IF i = 0 THEN s
            ELSE SubSeq(s, 1, i - 1)
                 \o <<(CHOOSE e \in ESCAPES : e.hex = SubSeq(s, i + 1, i + 2)).char>>
                 \o unquote(From(s, i + 3))
    IN Decode(Least({i \in 1..(Len(s) - 2) :
                        /\ s[i] = "%"
                        /\ \E e \in ESCAPES : e.hex = SubSeq(s, i + 1, i + 2)}))

FALLBACK_PROVIDERS == {
    <<"o","k","s","b","i">>, <<"o","k","h","d","f","c","b","a","n","k">>, <<"o","k","a","x","i","s">>, <<"o","k","i","c","i","c","i">>, <<"a","p","l">>, <<"y","b","l">>, <<"i","b","l">>,
    <<"p","a","y","t","m">>, <<"p","a","y","t","m","q","r">>, <<"s","u","p","e","r","y","e","s">> }

\* The except branch of validate_vpa: the inline check used when the VPA
\* validator cannot be imported
VpaFallback(vpa) ==
    LET provider == Lower(AfterLast(vpa, "@"))
        input == [type |-> <<"v","p","a">>, value |-> vpa]
    IN IF ~MatchVpa(vpa, 2, Len(vpa), 2, Len(vpa))
       THEN [input |-> input, verdict |-> "BLOCK", risk_score |-> 90,
             reasons |-> <<R("Invalid VPA format")>>]
       ELSE IF provider \notin FALLBACK_PROVIDERS
       THEN [input |-> input, verdict |-> "WARN", risk_score |-> 60,
             reasons |-> <<RA("Unknown payment provider", provider)>>]
       ELSE [input |-> input, verdict |-> "OK", risk_score |-> 10,
             reasons |-> <<R("Valid VPA format"), RA("Known provider", provider)>>]

\* validate_vpa(vpa) for a string; vpa_fault: the import of the VPA
\* validator raises
validate_vpa(raw, vpa_fault) ==
    LET Formatted(vpa, r) ==
            [input |-> [type |-> <<"v","p","a">>, value |-> vpa],
             verdict |-> r.verdict, risk_score |-> r.risk_score,
             reasons |-> r.reasons, provider |-> r.provider]
        Decoded(vpa) ==
            IF vpa_fault THEN VpaFallback(vpa)
            ELSE Formatted(vpa, validate_vpa_format(vpa))
    IN Decoded(unquote(raw))

SUSPICIOUS_KEYWORDS == <<
    <<"k","y","c">>, <<"v","e","r","i","f","y">>, <<"s","u","s","p","e","n","d","e","d">>, <<"b","l","o","c","k","e","d">>, <<"e","x","p","i","r","e">>, <<"u","p","d","a","t","e">>,
    <<"u","r","g","e","n","t">>, <<"i","m","m","e","d","i","a","t","e","l","y">>, <<"c","l","i","c","k"," ","h","e","r","e">>, <<"l","i","m","i","t","e","d"," ","t","i","m","e">>,
    <<"c","o","n","g","r","a","t","u","l","a","t","i","o","n","s">>, <<"w","i","n","n","e","r">>, <<"p","r","i","z","e">>, <<"l","o","t","t","e","r","y">>, <<"c","a","s","h","b","a","c","k">>,
    <<"r","e","f","u","n","d">>, <<"r","e","w","a","r","d">>, <<"c","l","a","i","m">>, <<"a","c","c","o","u","n","t">>, <<"b","a","n","k">> >>

\* [kw for kw in suspicious_keywords if kw in message_lower]
FoundKeywords(message_lower) ==
    SelectSeq(SUSPICIOUS_KEYWORDS, LAMBDA kw : Contains(message_lower, kw))

\* ', '.join(words)
RECURSIVE Join(_)
Join(words) ==
    IF Len(words) = 0 THEN <<>>
    ELSE IF Len(words) = 1 THEN words[1]
    ELSE words[1] \o <<","," ">> \o Join(Tail(words))

\* the length of the match of https?://[^\s]+ that starts at i, 0 when none
UrlMatchLen(s, i) ==
    LET \* head is the length of the scheme part, stop the position of the
        \* first whitespace after it (one past the end when there is none)
        Matched(head, stop) == IF head = 0 \/ stop = i + head THEN 0 ELSE stop - i
        Run(head) ==
            Matched(head, Least({k \in (i + head)..(Len(s) + 1) :
                                    k = Len(s) + 1 \/ IsSpace(s[k])}))
    IN Run(IF OccursAt(s, <<"h","t","t","p","s",":","/","/">>, i) THEN 8
           ELSE IF OccursAt(s, <<"h","t","t","p",":","/","/">>, i) THEN 7 ELSE 0)

\* re.findall(r'https?://[^\s]+', s), scanning from position i: the
\* leftmost match at or after i, then the matches after its end
RECURSIVE FindUrls(_, _)
FindUrls(s, i) ==
    LET Take(k, n) == <<SubSeq(s, k, k + n - 1)>> \o FindUrls(s, k + n)
        From1(k) == IF k = 0 THEN <<>> ELSE Take(k, UrlMatchLen(s, k))
    IN From1(Least({k \in i..Len(s) : UrlMatchLen(s, k) > 0}))

IsWordChar(c) == IsAlnum(c) \/ c = "_"

\* len(re.findall(r'\b\d{10}\b', s)): runs of exactly ten digits between
\* word boundaries
CountPhones(s) ==
    Cardinality({i \in 1..(Len(s) - 9) :
        /\ \A k \in 0..9 : IsDigit(s[i + k])
        /\ (i = 1 \/ ~IsWordChar(s[i - 1]))
        /\ (i + 10 > Len(s) \/ ~IsWordChar(s[i + 10]))})

\* The verdict validate_message derives from the accumulated risk
MessageVerdict(risk_score) ==
    IF risk_score >= 70 THEN "BLOCK" ELSE IF risk_score >= 30 THEN "WARN" ELSE "OK"

\* The risk one extracted URL adds, by the link path's final verdict
UrlRisk(url_verdict) ==
    IF url_verdict = "BLOCK" THEN 50 ELSE IF url_verdict = "WARN" THEN 30 ELSE 0

\* The loop of validate_message over the extracted URLs: each is stripped
\* of trailing punctuation and sent through the link path, one environment
\* per URL.  acc carries the risk, the reasons, url_results, the model cache
\* and the validators invoked.
RECURSIVE MessageUrls(_, _, _, _, _)
MessageUrls(urls, i, acc, art, envs) ==
    LET \* lk is what the link path answered for url
        Step(url, lk) ==
            LET url_verdict == Get(lk.result, "final_verdict", "WARN")
                entry == [url |-> url, verdict |-> url_verdict,
                          stage1 |-> Get(lk.result, "stage1", None),
                          stage2 |-> Get(lk.result, "stage2", None)]
            IN MessageUrls(urls, i + 1,
                   [risk |-> acc.risk + UrlRisk(url_verdict),
                    reasons |-> acc.reasons \o
                        (IF url_verdict = "BLOCK"
                         THEN <<RA("Blocked URL detected", Prefix(url, 50))>>
                         ELSE IF url_verdict = "WARN"
                         THEN <<RA("Suspicious URL", Prefix(url, 50))>>
                         ELSE <<>>),
                    url_results |-> Append(acc.url_results, entry),
                    models |-> lk.models,
                    calls |-> acc.calls \o lk.calls],
                   art, envs)
        Visit(url) == Step(url, validate_link(url, acc.models, art, envs[i]))
    IN IF i > Len(urls) THEN acc
       ELSE Visit(RStrip(urls[i], {".", ",", ";", ":", ")", "]", "}"}))

\* validate_message(message) for a string: the result, the model cache
\* after the call and the validators invoked
validate_message(message, models, art, envs) ==
    LET \* acc is what the loop over the URLs left, phones the number of
        \* ten-digit numbers in the message
        Finish(acc, phones) ==
            LET risk_score == acc.risk + (IF phones > 0 THEN 10 ELSE 0)
                reasons == acc.reasons \o
                           (IF phones > 0 THEN <<R("Contains phone number(s)")>> ELSE <<>>)
                base == [input |-> [type |-> <<"m","e","s","s","a","g","e">>, value |-> message],
                         verdict |-> MessageVerdict(risk_score),
                         risk_score |-> Min(risk_score, 100),
                         reasons |-> IF reasons # <<>> THEN reasons
                                     ELSE <<R("No immediate threats detected")>>]
            IN [result |-> IF acc.url_results # <<>>
                           THEN [k \in DOMAIN base \cup {"extracted_urls"} |->
                                    IF k = "extracted_urls" THEN acc.url_results
                                    ELSE base[k]]
                           ELSE base,
                models |-> acc.models,
                calls |-> acc.calls]
        Keywords(found_keywords) ==
            Finish(MessageUrls(FindUrls(message, 1), 1,
                       [risk |-> 15 * Len(found_keywords),
                        reasons |-> IF Len(found_keywords) > 0
                                    THEN <<RA("Suspicious keywords",
                                              Join(Prefix(found_keywords, 3)))>>
                                    ELSE <<>>,
                        url_results |-> <<>>,
                        models |-> models,
                        calls |-> <<>>], art, envs),
                   CountPhones(message))
    IN Keywords(FoundKeywords(Lower(message)))

\* decode_qr(file_data): the image bytes are a header followed by the text
\* the QR code carries; bytes that are no image, and an image that shows no
\* QR code, decode to None
IMAGE_HEADER == <<"P","N","G","|">>

decode_qr(hasFile, file_data) ==
    IF hasFile /\ StartsWith(file_data, IMAGE_HEADER) /\ Len(file_data) > Len(IMAGE_HEADER)
    THEN [found |-> TRUE, data |-> From(file_data, Len(IMAGE_HEADER) + 1)]
    ELSE [found |-> FALSE, data |-> <<>>]

TYPE_NAMES(qr_type) ==
    CASE qr_type = "protected_payment" -> <<"P","r","o","t","e","c","t","e","d"," ","P","a","y","m","e","n","t"," ","Q","R">>
      [] qr_type = "geo" -> <<"L","o","c","a","t","i","o","n","/","M","a","p","s"," ","Q","R">>
      [] qr_type = "social_media" -> <<"S","o","c","i","a","l"," ","M","e","d","i","a"," ","L","i","n","k"," ","Q","R">>
      [] qr_type = "tel" -> <<"P","h","o","n","e"," ","N","u","m","b","e","r"," ","Q","R">>
      [] qr_type = "mailto" -> <<"E","m","a","i","l"," ","A","d","d","r","e","s","s"," ","Q","R">>
      [] qr_type = "sms" -> <<"S","M","S"," ","Q","R">>
      [] qr_type = "wifi" -> <<"W","i","F","i"," ","C","r","e","d","e","n","t","i","a","l","s"," ","Q","R">>
      [] qr_type = "vcard" -> <<"C","o","n","t","a","c","t"," ","C","a","r","d"," ","Q","R">>
      [] qr_type = "intent" -> <<"A","p","p"," ","I","n","t","e","n","t"," ","Q","R">>
      [] qr_type = "text" -> <<"P","l","a","i","n"," ","T","e","x","t"," ","Q","R">>
      [] qr_type = "unknown" -> <<"U","n","k","n","o","w","n"," ","F","o","r","m","a","t"," ","Q","R">>
      [] OTHER -> <<"U","n","k","n","o","w","n"," ","Q","R">>

\* "(stage2.get('score') if stage2 else None) or stage1.get('score', 0)":
\* a Stage 2 score of 0 is falsy and gives way to Stage 1's
QrUrlScore(stage1, stage2) ==
    LET s2 == IF stage2 # None /\ DOMAIN stage2 # {} THEN Get(stage2, "score", 0) ELSE 0
    IN IF s2 # 0 THEN s2 ELSE Get(stage1, "score", 0)

\* validate_qr(file_data): the result, the model cache after the call and
\* the validators invoked
validate_qr(hasFile, file_data, models, art, env) ==
    LET \* a URL QR: lk is what the link path answered
        UrlQr(qr_data, lk) ==
            LET stage1 == Get(lk.result, "stage1", EmptyDict)
                stage2 == Get(lk.result, "stage2", EmptyDict)
            IN [result |->
                   [input |-> [type |-> <<"q","r">>, value |-> qr_data],
                    decoded_url |-> qr_data,
                    qr_type |-> <<"U","R","L"," ","Q","R"," ","C","o","d","e">>,
                    verdict |-> Get(lk.result, "final_verdict", "UNKNOWN"),
                    risk_score |-> QrUrlScore(stage1, stage2),
                    stage1 |-> stage1,
                    stage2 |-> stage2,
                    reasons |-> Get(lk.result, "reasons", <<>>)],
                models |-> lk.models,
                calls |-> lk.calls]
        \* a UPI payment QR: vpa_result is what the VPA path answered
        UpiQr(vpa, vpa_result) ==
            [result |->
                [input |-> [type |-> <<"q","r">>, value |-> <<"[","U","P","I"," ","P","a","y","m","e","n","t"," ","Q","R","]">>],
                 qr_type |-> <<"U","P","I"," ","P","a","y","m","e","n","t"," ","Q","R">>,
                 vpa |-> vpa,
                 verdict |-> Get(vpa_result, "verdict", "UNKNOWN"),
                 risk_score |-> Get(vpa_result, "risk_score", 0),
                 reasons |-> Get(vpa_result, "reasons", <<>>)],
             models |-> models,
             calls |-> <<"vpa">>]
        UpiVpa(vpa) == UpiQr(vpa, validate_vpa(vpa, env.vpa_fault))
        \* a plain VPA QR
        VpaQr(qr_data, vpa_result) ==
            [result |->
                [input |-> [type |-> <<"q","r">>, value |-> qr_data],
                 qr_type |-> <<"P","l","a","i","n"," ","V","P","A"," ","Q","R">>,
                 verdict |-> Get(vpa_result, "verdict", "UNKNOWN"),
                 risk_score |-> Get(vpa_result, "risk_score", 0),
                 reasons |-> Get(vpa_result, "reasons", <<>>)],
             models |-> models,
             calls |-> <<"vpa">>]
        \* every other type: the defaults of get_qr_description
        OtherQr(qr_type, qr_data, dflt) ==
            [result |->
                [input |-> [type |-> <<"q","r">>, value |-> Prefix(qr_data, 100)],
                 qr_type |-> TYPE_NAMES(qr_type),
                 decoded |-> IF qr_type # "protected_payment" THEN qr_data
                             ELSE <<"[","E","n","c","r","y","p","t","e","d"," ","D","a","t","a","]">>,
                 verdict |-> dflt[1],
                 risk_score |-> dflt[2],
                 reasons |-> dflt[3]],
             models |-> models,
             calls |-> <<>>]
        ByType(qr_result) ==
            IF "error" \in DOMAIN qr_result
            THEN [result |-> qr_result, models |-> models, calls |-> <<>>]
            ELSE IF qr_result.type = "url"
            THEN UrlQr(qr_result.data,
                       validate_link(qr_result.data, models, art, env.link))
            ELSE IF qr_result.type = "upi"
            THEN IF "vpa" \in DOMAIN qr_result /\ qr_result.vpa # <<>>
                 THEN UpiVpa(unquote(qr_result.vpa))
                 ELSE [result |->
                          [input |-> [type |-> <<"q","r">>, value |-> Prefix(qr_result.data, 50)],
                           qr_type |-> <<"M","a","l","f","o","r","m","e","d"," ","U","P","I"," ","Q","R">>,
                           verdict |-> "WARN",
                           risk_score |-> 50,
                           reasons |-> <<R("Could not extract VPA from UPI QR")>>],
                       models |-> models,
                       calls |-> <<>>]
            ELSE IF qr_result.type = "vpa"
            THEN VpaQr(qr_result.data, validate_vpa(qr_result.data, env.vpa_fault))
            ELSE OtherQr(qr_result.type, qr_result.data,
                         get_qr_description(qr_result.type))
    IN ByType(parse_qr_image(decode_qr(hasFile, file_data)))

----------------------------------------------------------------------------
(* backend/orchestrator.py: the in-process cache and validate_input.       *)

_CACHE_EXPIRY_HOURS == 24

\* get_cache_key(input_type, value, file_data).  MD5 is taken to be
\* injective: a digest is the text it was computed from, and the key keeps
\* whether it carries the "qr:" prefix.
get_cache_key(req) ==
    IF req.hasFile /\ req.file # <<>>
    THEN [qr |-> TRUE, of |-> req.file]
    ELSE [qr |-> FALSE,
          of |-> req.type \o <<":">> \o (IF req.hasValue THEN req.value ELSE NoneText)]

\* a freshness test that still accepts an entry aged exactly the limit
FreshAtLimit(entry, clock) == clock - entry.timestamp <= _CACHE_EXPIRY_HOURS

\* "age < timedelta(hours=_CACHE_EXPIRY_HOURS)"
Fresh(entry, clock) == clock - entry.timestamp < _CACHE_EXPIRY_HOURS

\* a lookup with sliding expiration: a hit stamps the entry again
get_and_touch(c, cache_key, clock) ==
    IF cache_key \in DOMAIN c
    THEN IF Fresh(c[cache_key], clock)
         THEN [hit |-> TRUE, result |-> c[cache_key].result,
               cache |-> With(c, cache_key, [c[cache_key] EXCEPT !.timestamp = clock])]
         ELSE [hit |-> FALSE, result |-> None, cache |-> Without(c, cache_key)]
    ELSE [hit |-> FALSE, result |-> None, cache |-> c]

\* get_from_cache(cache_key): whether a result is returned, the result, and
\* the cache after the lookup (an expired entry is deleted)
get_from_cache(c, cache_key, clock) ==
    IF cache_key \in DOMAIN c
    THEN IF Fresh(c[cache_key], clock)
         THEN [hit |-> TRUE, result |-> c[cache_key].result, cache |-> c]
         ELSE [hit |-> FALSE, result |-> None, cache |-> Without(c, cache_key)]
    ELSE [hit |-> FALSE, result |-> None, cache |-> c]

\* save_to_cache(cache_key, result)
save_to_cache(c, cache_key, result, clock) ==
    With(c, cache_key, [result |-> result, timestamp |-> clock])

\* The routing of validate_input: the path's result, or raised = TRUE when
\* the path lets an exception escape (unquote(None), None[:50]); hasValue
\* is FALSE when value is None
Route(req, models, art, env) ==
    LET Returned(r, first) ==
            [raised |-> FALSE, result |-> r.result, models |-> r.models,
             calls |-> first \o r.calls]
        Raised(first) ==
            [raised |-> TRUE, result |-> None, models |-> models, calls |-> first]
    IN IF req.type = <<"l","i","n","k">>
       THEN Returned(validate_link(req.value, models, art, env.link), <<>>)
       ELSE IF req.type = <<"v","p","a">>
       THEN IF ~req.hasValue THEN Raised(<<"vpa">>)
            ELSE [raised |-> FALSE, result |-> validate_vpa(req.value, env.vpa_fault),
                  models |-> models, calls |-> <<"vpa">>]
       ELSE IF req.type = <<"m","e","s","s","a","g","e">>
       THEN IF ~req.hasValue THEN Raised(<<"message">>)
            ELSE Returned(validate_message(req.value, models, art, env.urls),
                          <<"message">>)
       ELSE IF req.type = <<"q","r">>
       THEN Returned(validate_qr(req.hasFile, req.file, models, art, env), <<"qr">>)
       ELSE [raised |-> FALSE, result |-> [error |-> <<"I","n","v","a","l","i","d"," ","t","y","p","e">>],
             models |-> models, calls |-> <<>>]

\* result with result["cached"] and result["response_time_ms"] set
Stamp(result, cached, ms) == With(With(result, "cached", cached), "response_time_ms", ms)

\* Whether validate_input stores a computed result
Cacheable(result) == "error" \notin DOMAIN result

\* validate_input(input_type, value, file_data): the result returned, the
\* cache and the model cache after the call, and the validators invoked.
\* env.hit_ms and env.miss_ms are the elapsed times the call measures on a
\* hit and on a miss.
validate_input(req, c, clock, models, art, env) ==
    LET \* the computed result, stamped: stored unless it carries "error"
        Store(cache_key, look, routed, result) ==
            [result |-> result,
             cache |-> IF Cacheable(result)
                       THEN save_to_cache(look.cache, cache_key, result, clock)
                       ELSE look.cache,
             models |-> routed.models,
             calls |-> routed.calls]
        \* a miss: routed is what the path returned or raised
        Miss(cache_key, look, routed) ==
            IF routed.raised
            THEN [result |-> [error |-> <<"T","y","p","e","E","r","r","o","r">>],
                  cache |-> look.cache, models |-> routed.models,
                  calls |-> routed.calls]
            ELSE Store(cache_key, look, routed,
                       Stamp(routed.result, FALSE, env.miss_ms))
        \* look is what get_from_cache answered
        Lookup(cache_key, look) ==
            IF look.hit /\ DOMAIN look.result # {}
            THEN [result |-> Stamp(look.result, TRUE, env.hit_ms),
                  cache |-> look.cache, models |-> models, calls |-> <<>>]
            ELSE Miss(cache_key, look, Route(req, models, art, env))
        Keyed(cache_key) == Lookup(cache_key, get_from_cache(c, cache_key, clock))
    IN Keyed(get_cache_key(req))

----------------------------------------------------------------------------
(* backend/app.py: POST /validate.                                         *)

\* validate(type, value, file): the HTTP status, the body, whether the
\* orchestrator was called and what it returned, and the state after the
\* request.
\* env.read_fault: reading the upload raises.
validate(req, c, clock, models, art, env) ==
    LET untouched == [cache |-> c, models |-> models, calls |-> <<>>, called |-> FALSE,
                      result |-> None]
        Reply(status, body, st) ==
            [status |-> status, body |-> body, called |-> st.called, result |-> st.result,
             cache |-> st.cache, models |-> st.models, calls |-> st.calls]
        \* r is what validate_input returned
        Respond(r) ==
            IF "error" \in DOMAIN r.result
            THEN Reply(500, [detail |-> r.result.error],
                       [cache |-> r.cache, models |-> r.models, calls |-> r.calls,
                        called |-> TRUE, result |-> r.result])
            ELSE Reply(200, r.result,
                       [cache |-> r.cache, models |-> r.models, calls |-> r.calls,
                        called |-> TRUE, result |-> r.result])
    IN IF req.type = <<"q","r">> /\ ~req.hasFile
       THEN Reply(400, [detail |-> <<"F","i","l","e"," ","r","e","q","u","i","r","e","d"," ","f","o","r"," ","Q","R"," ","v","a","l","i","d","a","t","i","o","n">>], untouched)
       ELSE IF req.type # <<"q","r">> /\ (~req.hasValue \/ req.value = <<>>)
       THEN Reply(400, [detail |-> <<"V","a","l","u","e"," ","r","e","q","u","i","r","e","d">>], untouched)
       ELSE IF req.type = <<"q","r">> /\ env.read_fault
       THEN Reply(500, [detail |-> <<"r","e","a","d"," ","f","a","i","l","e","d">>], untouched)
       ELSE Respond(validate_input(
                IF req.type = <<"q","r">>
                THEN [type |-> <<"q","r">>, hasValue |-> FALSE, value |-> <<>>,
                      hasFile |-> TRUE, file |-> req.file]
                ELSE [type |-> req.type, hasValue |-> TRUE, value |-> req.value,
                      hasFile |-> FALSE, file |-> <<>>],
                c, clock, models, art, env))

----------------------------------------------------------------------------
(* stage1/links_stage1.py: the threshold search of the Stage 1 trainer.    *)
(* Weights are in hundredths and thresholds in thousandths.                *)

\* "for w in [0.8, 0.85, 0.9]"
W_LINKS == <<80, 85, 90>>

\* np.linspace(start, stop, num)[i]
linspace(start, stop, num, i) == start + (i * (stop - start)) \div (num - 1)

\* the points each threshold is searched over
GridPoints == 9

\* the combination the three nested loops reach at their pos-th iteration
Combo(pos) ==
    [w_link |-> W_LINKS[pos \div (GridPoints * GridPoints) + 1],
     t_block |-> linspace(500, 700, GridPoints, (pos % (GridPoints * GridPoints)) \div GridPoints),
     t_ok |-> linspace(200, 400, GridPoints, pos % GridPoints)]

GridSize == Len(W_LINKS) * GridPoints * GridPoints

\* a search that evaluates every combination
NeverSkipped(t_block, t_ok) == FALSE

\* "if t_ok >= (t_block - 0.15): continue"
Skipped(t_block, t_ok) == t_ok >= t_block - 150

\* "score_tuple > best": Python compares tuples lexicographically
TupleGreater(a, b) ==
    \E i \in 1..Len(a) : a[i] > b[i] /\ \A j \in 1..(i - 1) : a[j] = b[j]

\* the score tuples eval_combo's metrics may give: whether recall reaches
\* 0.80, the blocking precision, minus the distance of the warn rate from
\* 0.25, and the AUC, in hundredths
ScoreTuples ==
    { <<0, 100, -25, 90>>, <<1, 0, -25, 50>>, <<1, 50, -10, 90>>, <<1, 50, 0, 90>> }

\* main at "best, best_params = None, None"
TrainerStart ==
    [pc |-> "search", pos |-> 0, best |-> None, best_params |-> None, config |-> None]


----------------------------------------------------------------------------
(* cache_backends.py: the SQLite cache.  A row is kept under its primary   *)
(* key; the clock is time.time() in whole seconds.                         *)

\* json.dumps(value, default=str): a dict becomes an object, a tuple and a
\* list both become an array, None becomes null
dumps(value) ==
    CASE value.py = "dict" -> [json |-> "object", of |-> value.of]
      [] value.py \in {"list", "tuple"} -> [json |-> "array", of |-> value.of]
      [] OTHER -> [json |-> "null"]

\* json.loads(value_json): an object becomes a dict, an array a list, null
\* None
loads(value_json) ==
    CASE value_json.json = "object" -> [py |-> "dict", of |-> value_json.of]
      [] value_json.json = "array" -> [py |-> "list", of |-> value_json.of]
      [] OTHER -> [py |-> "None"]

\* f"{kind}:{key}"
RowKey(kind, key) == kind \o <<":">> \o key

\* Cache.set(kind, key, value, ttl_seconds): the table after INSERT OR REPLACE
set(table, kind, key, value, ttl_seconds, clock) ==
    With(table, RowKey(kind, key),
         [kind |-> kind, value_json |-> dumps(value), ts |-> clock, ttl |-> ttl_seconds])

\* Cache.get(kind, key): what is returned and the table after the call
get(table, kind, key, clock) ==
    IF RowKey(kind, key) \notin DOMAIN table
    THEN [result |-> [py |-> "None"], table |-> table]
    ELSE IF clock - table[RowKey(kind, key)].ts > table[RowKey(kind, key)].ttl
    THEN [result |-> [py |-> "None"], table |-> Without(table, RowKey(kind, key))]
    ELSE [result |-> loads(table[RowKey(kind, key)].value_json), table |-> table]

----------------------------------------------------------------------------
(* vpa_validation/vpa_reputation.py: the reputation store.  Trust is an    *)
(* exact fraction: TrustOne units make 1.0, so that 0.05 is a whole number *)
(* of units and so is every product by 0.75 of at most MaxReports reports. *)

\* the scam reports made in a run
MaxReports == 2

TrustOne == 20 * 4 ^ MaxReports

\* {"reports": 0, "trust": 0.50}
NewReputation == [reports |-> 0, trust |-> TrustOne \div 2]

\* get_reputation(vpa)
get_reputation(store, vpa) == Get(store, Lower(vpa), NewReputation)

\* a clean observation that raises trust without a ceiling
Uncapped(trust) == trust + TrustOne \div 20

\* "min(1.0, trust + 0.05)"
Capped(trust) == Min(TrustOne, trust + TrustOne \div 20)

\* update_reputation(vpa, is_scam): the store after the call
update_reputation(store, vpa, is_scam) ==
    LET Updated(rec) ==
            IF is_scam
            THEN [reports |-> rec.reports + 1, trust |-> (rec.trust * 3) \div 4]
            ELSE [reports |-> rec.reports, trust |-> Capped(rec.trust)]
    IN With(store, Lower(vpa), Updated(Get(store, Lower(vpa), NewReputation)))

----------------------------------------------------------------------------
(* stage2_dynamic/scan_playwright.py: the batch scanner.  A scan_one task  *)
(* is at one of its awaits: waiting for the semaphore, creating the        *)
(* context of an attempt, navigating under a wait condition, or backing    *)
(* off; or it has returned or raised.                                      *)

CONCURRENCY == 3

MAX_ATTEMPTS == 2

\* "wait_sequence = ["domcontentloaded", "networkidle"]"
wait_sequence == <<"domcontentloaded", "networkidle">>

\* main when the CSV is about to be read; sem is the value the semaphore is
\* made with
ScanStart == [main |-> "start", sem |-> CONCURRENCY, pc |-> <<>>]

\* a scan_one task at an await of attempt attempt_no, under the wait-th
\* wait condition
TaskAt(at, attempt_no, wait) == [at |-> at, attempt_no |-> attempt_no, wait |-> wait]

\* the tasks inside "async with semaphore"
InSection(pc) == { i \in DOMAIN pc : pc[i].at \in {"context", "goto", "backoff"} }

\* a section whose exit keeps the slot
ExitKeepsSlot(sem) == sem

\* the exit of "async with semaphore": semaphore.release()
Exit(sem) == sem + 1

----------------------------------------------------------------------------
\* the offline tools at rest, while the service runs
ToolsIdle ==
    /\ grid = TrainerStart
    /\ rows = EmptyDict
    /\ VPA_REPUTATION = EmptyDict
    /\ scan = ScanStart
    /\ files = EmptyDict

----------------------------------------------------------------------------
(* Bounds and the inputs drawn from them.                                  *)

\* the clock counts hours; it advances by TickStep up to MaxClock
MaxClock == 24
TickStep == 12

\* the elapsed milliseconds a call measures when it answers from the cache
\* and when it computes the result
HitMillis == 0
ComputeMillis == 40

\* what is on disk for the three model artifacts
ArtifactConfigs ==
    { [xgb |-> "ok", iforest |-> "ok", scaler |-> "ok"],
      [xgb |-> "missing", iforest |-> "ok", scaler |-> "ok"],
      [xgb |-> "ok", iforest |-> "corrupt", scaler |-> "ok"],
      [xgb |-> "ok", iforest |-> "missing", scaler |-> "ok"] }

\* what Stage 1's libraries may answer: the classifier's probability and the
\* isolation forest's anomaly score in hundredths
Stage1Envs ==
    [fault : {"none", "import", "predict"}, xgb_prob : {10, 50, 90},
     if_score : {20, 80}, if_fault : BOOLEAN]

\* Stage 1 answering with a given probability, nothing failing
Stage1Answers(p) == [fault |-> "none", xgb_prob |-> p, if_score |-> 20, if_fault |-> FALSE]

\* what a link request may meet for a URL: the Stage 1 validator cannot be
\* imported, Stage 1's answer, Stage 2 raises, the scanner cannot be
\* imported, and the page the network serves
LinkEnvs(url) ==
    LET Page(fetch, final, login, ml) ==
            [fetch |-> fetch, final |-> final, login |-> login, otp |-> FALSE,
             banking |-> login, sensitive |-> FALSE, ml |-> ml]
        NetEnvs == { Page("ok", Netloc(url), FALSE, -1),
                     Page("ok", Netloc(url), TRUE, 90),
                     Page("ok", <<"w","w","w",".","g","o","o","g","l","e",".","c","o","m">>, FALSE, -1),
                     Page("ok", <<"e","v","i","l",".","e","x","a","m","p","l","e",".","n","e","t">>, TRUE, -1),
                     Page("fail", <<>>, FALSE, -1),
                     Page("raise", <<>>, FALSE, 30) }
    IN [link_fault : BOOLEAN,
        s1 : {Stage1Answers(p) : p \in {10, 50, 90}}
             \cup {[fault |-> "import", xgb_prob |-> 10, if_score |-> 80, if_fault |-> TRUE]},
        s2_raise : BOOLEAN,
        s2 : [fault : {"none", "import"}, net : NetEnvs]]

\* a link environment where the site is down: whether the Stage 1 validator
\* cannot be imported, Stage 1's probability, whether Stage 2 raises
SiteDown(link_fault, p, s2_raise) ==
    [link_fault |-> link_fault, s1 |-> Stage1Answers(p), s2_raise |-> s2_raise,
     s2 |-> [fault |-> "none",
             net |-> [fetch |-> "fail", final |-> <<>>, login |-> FALSE, otp |-> FALSE,
                      banking |-> FALSE, sensitive |-> FALSE, ml |-> -1]]]

\* the environments that make a difference to a request: the link
\* environment of each URL, the milliseconds the call measures and whether
\* reading the upload raises
RequestEnvs(req) ==
    { [link |-> l, urls |-> <<l, l>>, vpa_fault |-> FALSE,
       hit_ms |-> HitMillis, miss_ms |-> ComputeMillis, read_fault |-> rf] :
        l \in IF req.type = <<"l","i","n","k">>
              THEN {SiteDown(FALSE, 10, FALSE), SiteDown(TRUE, 10, FALSE)}
              ELSE {SiteDown(FALSE, 10, FALSE)},
        rf \in IF req.type = <<"q","r">> /\ req.hasFile THEN BOOLEAN ELSE {FALSE} }

Request(type, hasValue, value, hasFile, file) ==
    [type |-> type, hasValue |-> hasValue, value |-> value,
     hasFile |-> hasFile, file |-> file]

Text(type, value) == Request(type, TRUE, value, FALSE, <<>>)
Upload(file) == Request(<<"q","r">>, FALSE, <<>>, TRUE, file)

\* the requests validate_input is called with
DirectRequests ==
    { Text(<<"l","i","n","k">>, <<"h","t","t","p","s",":","/","/","e","x","a","m","p","l","e",".","o","r","g","/","p","a","y">>),
      Text(<<"v","p","a">>, <<"a","l","i","c","e","@","o","k","a","x","i","s">>),
      Text(<<"m","e","s","s","a","g","e">>, <<"u","r","g","e","n","t"," ","k","y","c"," ","h","t","t","p",":","/","/","s","b","i","-","k","y","c",".","c","o","m","/","x",".">>),
      Upload(IMAGE_HEADER \o <<"u","p","i",":","/","/","p","a","y","?","p","a","=","b","o","b","%","4","0","y","b","l","&","p","n","=","B","o","b">>),
      Upload(<<"J","U","N","K">>),
      Request(<<"v","p","a">>, FALSE, <<>>, FALSE, <<>>),
      Text(<<"c","a","r","d">>, <<"a","l","i","c","e","@","o","k","a","x","i","s">>) }

\* the requests POST /validate receives
HttpRequests ==
    { Text(<<"l","i","n","k">>, <<"h","t","t","p","s",":","/","/","e","x","a","m","p","l","e",".","o","r","g","/","p","a","y">>),
      Text(<<"v","p","a">>, <<"a","l","i","c","e","@","o","k","a","x","i","s">>),
      Text(<<"l","i","n","k">>, <<>>),
      Request(<<"m","e","s","s","a","g","e">>, FALSE, <<>>, FALSE, <<>>),
      Request(<<"q","r">>, TRUE, <<"a","l","i","c","e","@","o","k","a","x","i","s">>, FALSE, <<>>),
      Upload(IMAGE_HEADER \o <<"u","p","i",":","/","/","p","a","y","?","p","a","=","b","o","b","%","4","0","y","b","l","&","p","n","=","B","o","b">>),
      Upload(<<"J","U","N","K">>),
      Text(<<"c","a","r","d">>, <<"a","l","i","c","e","@","o","k","a","x","i","s">>) }

NoCall == [op |-> "none"]

\* what the cache holds under a key before a call
Snapshot(c, key) ==
    IF key \in DOMAIN c THEN [present |-> TRUE, entry |-> c[key]]
    ELSE [present |-> FALSE]

----------------------------------------------------------------------------
(* The service: calls of validate_input, requests to POST /validate, and   *)
(* the passing of time.                                                    *)

Init ==
    /\ cache = EmptyDict
    /\ now = 0
    /\ mlModels = EmptyDict
    /\ artifacts = [xgb |-> "ok", iforest |-> "ok", scaler |-> "ok"]
    /\ arg = None
    /\ last = NoCall
    /\ ToolsIdle

CallValidateInput ==
    \E req \in DirectRequests : \E e \in RequestEnvs(req) :
       \E r \in {validate_input(req, cache, now, mlModels, artifacts, e)},
          key \in {get_cache_key(req)} :
          /\ cache' = r.cache
          /\ mlModels' = r.models
          /\ last' = [op |-> "validate_input", req |-> req,
                      key |-> key, pre |-> Snapshot(cache, key),
                      at |-> now, result |-> r.result, calls |-> r.calls]
          /\ UNCHANGED <<now, artifacts, arg, tools>>

PostValidate ==
    \E req \in HttpRequests : \E e \in RequestEnvs(req) :
       \E r \in {validate(req, cache, now, mlModels, artifacts, e)},
          key \in {get_cache_key(IF req.type = <<"q","r">> THEN Upload(req.file)
                                 ELSE Text(req.type, req.value))} :
          /\ cache' = r.cache
          /\ mlModels' = r.models
          /\ last' = [op |-> "POST /validate", req |-> req,
                      key |-> key, pre |-> Snapshot(cache, key), at |-> now,
                      read_fault |-> e.read_fault,
                      status |-> r.status, body |-> r.body,
                      called |-> r.called, result |-> r.result, calls |-> r.calls]
          /\ UNCHANGED <<now, artifacts, arg, tools>>

Tick ==
    /\ now + TickStep <= MaxClock
    /\ now' = now + TickStep
    /\ UNCHANGED <<cache, mlModels, artifacts, arg, last, tools>>

Next == CallValidateInput \/ PostValidate \/ Tick

Spec == Init /\ [][Next]_vars

----------------------------------------------------------------------------
(* validate_url applied to one URL.                                        *)

\* the URLs: a scheme, a network location and a path
UrlInputs ==
    LET UrlSchemes == { <<"h","t","t","p","s",":","/","/">>, <<"h","t","t","p",":","/","/">> }
        UrlHosts ==
            { <<"g","o","o","g","l","e",".","c","o","m">>, <<"w","w","w",".","g","o","o","g","l","e",".","c","o","m">>, <<"m","a","i","l",".","g","o","o","g","l","e",".","c","o","m">>, <<"P","a","y",".","G","o","o","g","l","e",".","C","O","M">>,
              <<"m","y","w","w","w",".","g","o","o","g","l","e",".","c","o","m">>, <<"g","o","o","g","l","e",".","c","o","m",":","4","4","3">>, <<"e","v","i","l","g","o","o","g","l","e",".","c","o","m">>,
              <<"n","e","t","b","a","n","k","i","n","g",".","h","d","f","c","b","a","n","k",".","c","o","m">>, <<"u","p","i","-","p","a","y",".","g","o","o","g","l","e",".","c","o","m">>, <<"k","y","c",".","s","b","i",".","c","o",".","i","n">>,
              <<"s","b","i","-","k","y","c",".","c","o","m">>, <<"l","o","g","i","n","-","v","e","r","i","f","y",".","c","o","m">>, <<"n","e","t","b","a","n","k","i","n","g",".","e","v","i","l",".","i","n">>,
              <<"p","a","y","t","m","-","o","f","f","e","r","s",".","c","o","m">>, <<"k","y","c",".","e","x","a","m","p","l","e",".","i","n">>, <<"e","x","a","m","p","l","e",".","o","r","g">>,
              <<"h","d","f","c","b","a","n","k",".","c","o","m",".","e","v","i","l",".","n","e","t">>, <<"u","p","i","-","p","a","y",".","c","o","m",":","8","0","8","0">> }
        UrlPaths == { <<>>, <<"/","s","e","a","r","c","h","?","q","=","k","y","c">> }
    IN { s \o h \o p : s \in UrlSchemes, h \in UrlHosts, p \in UrlPaths }

InitUrl ==
    /\ cache = EmptyDict
    /\ now = 0
    /\ mlModels = EmptyDict
    /\ artifacts \in ArtifactConfigs
    /\ arg \in [url : UrlInputs, env : Stage1Envs]
    /\ last = NoCall
    /\ ToolsIdle

ApplyValidateUrl ==
    /\ last.op = "none"
    /\ \E r \in {validate_url(arg.url, mlModels, artifacts, arg.env)} :
          /\ mlModels' = r.models
          /\ last' = [op |-> "validate_url", url |-> arg.url, result |-> r.result]
    /\ UNCHANGED <<cache, now, artifacts, arg, tools>>

SpecUrl == InitUrl /\ [][ApplyValidateUrl]_vars

----------------------------------------------------------------------------
(* validate_link applied to one URL.                                       *)

LinkInputs ==
    { <<"h","t","t","p","s",":","/","/","w","w","w",".","g","o","o","g","l","e",".","c","o","m","/","s","e","a","r","c","h">>, <<"h","t","t","p","s",":","/","/","m","y","w","w","w",".","g","o","o","g","l","e",".","c","o","m","/">>,
      <<"h","t","t","p",":","/","/","s","b","i","-","k","y","c",".","c","o","m","/","l","o","g","i","n">>, <<"h","t","t","p","s",":","/","/","e","x","a","m","p","l","e",".","o","r","g","/","p","a","y">>,
      <<"h","t","t","p","s",":","/","/","p","a","y","t","m","-","r","e","w","a","r","d","s",".","x","y","z","/","c","l","a","i","m">>, <<"h","t","t","p","s",":","/","/","n","e","t","b","a","n","k","i","n","g",".","h","d","f","c","b","a","n","k",".","c","o","m","/">> }

InitLink ==
    /\ cache = EmptyDict
    /\ now = 0
    /\ mlModels = EmptyDict
    /\ artifacts \in ArtifactConfigs
    /\ arg \in UNION { [url : {u}, env : LinkEnvs(u)] : u \in LinkInputs }
    /\ last = NoCall
    /\ ToolsIdle

ApplyValidateLink ==
    /\ last.op = "none"
    /\ \E r \in {validate_link(arg.url, mlModels, artifacts, arg.env)} :
          /\ mlModels' = r.models
          /\ last' = [op |-> "validate_link", url |-> arg.url,
                      result |-> r.result, calls |-> r.calls]
    /\ UNCHANGED <<cache, now, artifacts, arg, tools>>

SpecLink == InitLink /\ [][ApplyValidateLink]_vars

----------------------------------------------------------------------------
(* validate_message applied to one message.                                *)

\* the messages: words, links and a tail
MessageInputs ==
    LET MessageWords ==
            { <<>>, <<"H","e","l","l","o",","," ","l","u","n","c","h"," ","a","t"," ","n","o","o","n","?"," ">>,
              <<"U","R","G","E","N","T",":"," ","K","Y","C"," ","s","u","s","p","e","n","d","e","d",","," ","v","e","r","i","f","y"," ","a","c","c","o","u","n","t"," ","a","t"," ","b","a","n","k"," ">>,
              <<"C","o","n","g","r","a","t","u","l","a","t","i","o","n","s"," ","w","i","n","n","e","r","!"," ","c","l","a","i","m"," ","p","r","i","z","e"," ","l","o","t","t","e","r","y"," ","c","a","s","h","b","a","c","k"," ","r","e","f","u","n","d"," ","r","e","w","a","r","d"," ">> }
        MessageLinks ==
            { <<>>, <<"h","t","t","p",":","/","/","s","b","i","-","k","y","c",".","c","o","m","/","l","o","g","i","n",".">>, <<"(","h","t","t","p","s",":","/","/","w","w","w",".","g","o","o","g","l","e",".","c","o","m","/",")">>,
              <<"h","t","t","p",":","/","/","p","a","y","t","m","-","o","f","f","e","r","s",".","c","o","m","/","a">>,
              <<"h","t","t","p","s",":","/","/","e","x","a","m","p","l","e",".","o","r","g","/","p","a","y"," ","h","t","t","p",":","/","/","l","o","g","i","n","-","v","e","r","i","f","y",".","c","o","m","/","a">>,
              <<"s","e","e"," ","h","t","t","p","s",":","/","/","w","w","w",".","g","o","o","g","l","e",".","c","o","m",","," ","o","r"," ","h","t","t","p",":","/","/","p","a","y","t","m","-","o","f","f","e","r","s",".","c","o","m",";">> }
        MessageTails == { <<>>, <<" ","c","a","l","l"," ","9","8","7","6","5","4","3","2","1","0">>, <<" ","r","e","f"," ","9","8","7","6","5","4","3","2","1","0","9">> }
    IN { w \o l \o t : w \in MessageWords, l \in MessageLinks, t \in MessageTails }

InitMsg ==
    /\ cache = EmptyDict
    /\ now = 0
    /\ mlModels = EmptyDict
    /\ artifacts \in {a \in ArtifactConfigs : a.iforest = "ok"}
    /\ arg \in [message : MessageInputs,
               envs : [1..2 -> {SiteDown(f, p, r) : f \in BOOLEAN, p \in {10, 90},
                                                    r \in BOOLEAN}]]
    /\ last = NoCall
    /\ ToolsIdle

ApplyValidateMessage ==
    /\ last.op = "none"
    /\ \E r \in {validate_message(arg.message, mlModels, artifacts, arg.envs)} :
          /\ mlModels' = r.models
          /\ last' = [op |-> "validate_message", message |-> arg.message,
                      result |-> r.result, calls |-> r.calls]
    /\ UNCHANGED <<cache, now, artifacts, arg, tools>>

SpecMsg == InitMsg /\ [][ApplyValidateMessage]_vars

----------------------------------------------------------------------------
(* Properties.                                                             *)

\* the last call was validate_input and it did not answer from the cache
Missed ==
    /\ last.op = "validate_input"
    /\ ("cached" \notin DOMAIN last.result \/ ~last.result.cached)

\* severity of a verdict
Rank(verdict) == CASE verdict = "BLOCK" -> 2 [] verdict = "WARN" -> 1 [] OTHER -> 0

\* the host of a URL: its network location without the port, lower-cased
HostOf(url) ==
    LET netloc == Lower(Netloc(url))
        colons == {k \in 1..Len(netloc) : netloc[k] = ":"}
    IN IF colons = {} THEN netloc
       ELSE SubSeq(netloc, 1, (CHOOSE k \in colons : \A j \in colons : k <= j) - 1)

\* C1: a validate_input call whose cache key has an entry younger than 24
\* hours returns that entry's verdict, risk_score and reasons unchanged (and
\* every other field of it but response_time_ms) with cached = true, and
\* turns to none of the link, VPA, message or QR validators.
C1_FreshEntryIsReturned ==
    (/\ last.op = "validate_input"
     /\ last.pre.present
     /\ last.at - last.pre.entry.timestamp < 24)
    => /\ \A k \in (DOMAIN last.result \cup DOMAIN last.pre.entry.result)
                      \ {"cached", "response_time_ms"} :
             /\ k \in DOMAIN last.result
             /\ k \in DOMAIN last.pre.entry.result
             /\ last.result[k] = last.pre.entry.result[k]
       /\ "reasons" \in DOMAIN last.result
       /\ "risk_score" \in DOMAIN last.result
       /\ "cached" \in DOMAIN last.result
       /\ last.result.cached = TRUE
       /\ last.calls = <<>>
       /\ cache[last.key] = last.pre.entry

\* C1 happens: an entry stored some hours before is returned from the cache
C1_Witness ==
    /\ last.op = "validate_input"
    /\ last.pre.present
    /\ last.at > last.pre.entry.timestamp
    /\ last.at - last.pre.entry.timestamp < 24
    /\ "verdict" \in DOMAIN last.result
    /\ last.result.cached = TRUE

\* C2: no cache entry holds a result with an error key; on a miss the
\* computed result is stored under the request's key if and only if it
\* carries no error key.
C2_ErrorsAreNeverCached ==
    /\ \A k \in DOMAIN cache : "error" \notin DOMAIN cache[k].result
    /\ Missed =>
          ("error" \notin DOMAIN last.result
             <=> /\ last.key \in DOMAIN cache
                 /\ cache[last.key] = [result |-> last.result, timestamp |-> last.at])
    /\ (Missed /\ "error" \in DOMAIN last.result) => last.key \notin DOMAIN cache

\* C2 happens: the link path failed with an exception while the cache holds
\* other results, and the error was not stored
C2_Witness ==
    /\ Missed
    /\ last.req.type = <<"l","i","n","k">>
    /\ "error" \in DOMAIN last.result
    /\ last.pre.present
    /\ DOMAIN cache # {}

\* C3: validate_link turns to Stage 1 first; it turns to Stage 2 if and
\* only if the Stage 1 verdict is WARN or BLOCK, after Stage 1 and at most
\* once; when Stage 1 gave no verdict (its validator could not be imported)
\* Stage 2 is not run.
C3_StageOrder ==
    last.op = "validate_link"
    => /\ last.calls \in {<<"stage1">>, <<"stage1", "stage2">>}
       /\ "stage1" \in DOMAIN last.result
             => (last.calls = <<"stage1", "stage2">>
                   <=> last.result.stage1.verdict \in {"WARN", "BLOCK"})
       /\ "stage1" \notin DOMAIN last.result => last.calls = <<"stage1">>

\* C3 happens: Stage 1 said WARN and Stage 2 ran after it
C3_Witness ==
    /\ last.op = "validate_link"
    /\ "stage1" \in DOMAIN last.result
    /\ last.result.stage1.verdict = "WARN"
    /\ last.calls = <<"stage1", "stage2">>

\* C4: when Stage 2 ran and reported success, the final verdict is the more
\* severe of the two stages' verdicts and the final risk_score is the larger
\* of the two scores; the combination does so for every pair of verdicts
\* and of scores.
C4_CombinedVerdictAndScore ==
    /\ (/\ last.op = "validate_link"
        /\ "stage2" \in DOMAIN last.result
        /\ last.result.stage2 # None
        /\ last.result.stage2.success = TRUE)
       => LET s1 == last.result.stage1
              s2 == last.result.stage2
          IN /\ last.result.final_verdict \in {s1.verdict, s2.verdict}
             /\ Rank(last.result.final_verdict) >= Rank(s1.verdict)
             /\ Rank(last.result.final_verdict) >= Rank(s2.verdict)
             /\ last.result.risk_score \in {s1.score, s2.score}
             /\ last.result.risk_score >= s1.score
             /\ last.result.risk_score >= s2.score
    /\ \A v1, v2 \in {"OK", "WARN", "BLOCK"} :
          /\ CombineVerdict(v1, v2) \in {v1, v2}
          /\ Rank(CombineVerdict(v1, v2)) >= Rank(v1)
          /\ Rank(CombineVerdict(v1, v2)) >= Rank(v2)
    /\ \A a, b \in {0, 10, 44, 50, 76, 100} :
          /\ CombineScore(a, b) \in {a, b}
          /\ CombineScore(a, b) >= a
          /\ CombineScore(a, b) >= b

\* C4 happens: Stage 2 succeeded with a score above Stage 1's, and the
\* final score is Stage 2's
C4_Witness ==
    /\ last.op = "validate_link"
    /\ "stage2" \in DOMAIN last.result
    /\ last.result.stage2 # None
    /\ last.result.stage2.success = TRUE
    /\ last.result.stage2.score > last.result.stage1.score
    /\ last.result.risk_score = last.result.stage2.score

\* C5: when Stage 1 gave a verdict and Stage 2 did not run, raised, or
\* returned success = false, the final verdict and risk_score are exactly
\* Stage 1's and the result carries no error key.
C5_Stage2FailureFallsBackToStage1 ==
    (/\ last.op = "validate_link"
     /\ "stage1" \in DOMAIN last.result
     /\ \/ last.result.stage2 = None
        \/ last.result.stage2.success = FALSE)
    => /\ last.result.final_verdict = last.result.stage1.verdict
       /\ last.result.risk_score = last.result.stage1.score
       /\ "error" \notin DOMAIN last.result

\* C5 happens: Stage 2 ran and returned success = false with a score other
\* than Stage 1's, and the final score is Stage 1's
C5_Witness ==
    /\ last.op = "validate_link"
    /\ "stage1" \in DOMAIN last.result
    /\ last.calls = <<"stage1", "stage2">>
    /\ last.result.stage2 # None
    /\ last.result.stage2.success = FALSE
    /\ last.result.stage2.score # last.result.stage1.score
    /\ last.result.risk_score = last.result.stage1.score

\* C6: every result of validate_input for the types link, vpa, message and
\* qr that has no error key has both a verdict and a risk_score field, and
\* every result that has an error key has neither.
C6_ResultShape ==
    (/\ last.op = "validate_input"
     /\ last.req.type \in { <<"l","i","n","k">>, <<"v","p","a">>, <<"m","e","s","s","a","g","e">>, <<"q","r">> })
    => IF "error" \in DOMAIN last.result
       THEN /\ "verdict" \notin DOMAIN last.result
            /\ "risk_score" \notin DOMAIN last.result
       ELSE /\ "verdict" \in DOMAIN last.result
            /\ "risk_score" \in DOMAIN last.result

\* C7: POST /validate answers 400 without calling the orchestrator when
\* type = qr has no file or another type has an empty or absent value; 500
\* when reading the upload raises or the orchestrator's result has an error
\* key; 200 with the orchestrator's full result otherwise.
C7_HttpOutcome ==
    last.op = "POST /validate"
    => LET req == last.req
           invalid == \/ req.type = <<"q","r">> /\ ~req.hasFile
                      \/ req.type # <<"q","r">> /\ (~req.hasValue \/ req.value = <<>>)
       IN /\ invalid => (last.status = 400 /\ ~last.called /\ last.calls = <<>>)
          /\ (~invalid /\ last.read_fault /\ req.type = <<"q","r">>)
                => (last.status = 500 /\ ~last.called)
          /\ (~invalid /\ ~(last.read_fault /\ req.type = <<"q","r">>))
                => /\ last.called
                   /\ IF "error" \in DOMAIN last.result
                      THEN last.status = 500 /\ last.body = [detail |-> last.result.error]
                      ELSE last.status = 200 /\ last.body = last.result

\* C7 happens: the orchestrator was called and its result had an error key
C7_Witness ==
    /\ last.op = "POST /validate"
    /\ last.called
    /\ "error" \in DOMAIN last.result
    /\ last.status = 500

\* C8: for a URL whose host is an entry of the trusted-domain list or a
\* subdomain of one, validate_url returns verdict OK with score 0.0.
C8_TrustedHostIsOk ==
    (/\ last.op = "validate_url"
     /\ \E trusted \in TRUSTED_DOMAINS :
           \/ HostOf(last.url) = trusted
           \/ EndsWith(HostOf(last.url), <<".">> \o trusted))
    => /\ last.result.verdict = "OK"
       /\ last.result.score = 0

\* C9: for a URL whose host matches one of the 17 phishing patterns,
\* validate_url returns verdict BLOCK with score 1.0.
C9_PhishingHostIsBlocked ==
    (/\ last.op = "validate_url"
     /\ \E i \in 1..Len(PHISHING_PATTERNS) : ReMatch(PHISHING_PATTERNS[i], HostOf(last.url)))
    => /\ last.result.verdict = "BLOCK"
       /\ last.result.score = 100

\* C10: a message with at least one extracted URL whose link-path final
\* verdict is BLOCK gets the verdict WARN or BLOCK, and its risk_score is
\* within [0, 1].
C10_BlockedUrlRaisesMessage ==
    (/\ last.op = "validate_message"
     /\ "extracted_urls" \in DOMAIN last.result
     /\ \E i \in 1..Len(last.result.extracted_urls) :
           last.result.extracted_urls[i].verdict = "BLOCK")
    => /\ last.result.verdict \in {"WARN", "BLOCK"}
       /\ last.result.risk_score >= 0
       /\ last.result.risk_score <= 100

\* C10 happens: a message with nothing suspicious but one blocked URL is
\* given WARN
C10_Witness ==
    /\ last.op = "validate_message"
    /\ "extracted_urls" \in DOMAIN last.result
    /\ Len(last.result.extracted_urls) = 1
    /\ last.result.extracted_urls[1].verdict = "BLOCK"
    /\ last.result.risk_score = 50
    /\ last.result.verdict = "WARN"

----------------------------------------------------------------------------
(* validate_qr applied to one uploaded image.                              *)

\* the texts a QR code may carry: UPI payment strings put together from a
\* head, a pa parameter and a tail, and texts of every other type
QrPayloads ==
    LET UpiHeads == { <<"u","p","i",":","/","/","p","a","y","?">>, <<"u","p","i",":","/","/","c","o","l","l","e","c","t","?">>, <<"U","P","I",":","/","/","p","a","y","?">> }
        UpiPas ==
            { <<>>, <<"p","a","=","t","e","s","t","@","o","k","s","b","i">>, <<"p","a","=","b","o","b","%","4","0","y","b","l">>, <<"p","a","=","b","a","d","_","f","o","r","m","a","t">>,
              <<"p","a","=","u","s","e","r","@","u","n","k","n","o","w","n","p","r","o","v","i","d","e","r","1","2","3">>, <<"p","a","=","s","h","o","p","@","p","a","y","t","m","q","r">>, <<"p","a","=">>,
              <<"p","n","=","B","o","b","&","p","a","=","a","l","i","c","e","%","4","0","o","k","a","x","i","s">> }
        UpiTails == { <<>>, <<"&","a","m","=","1","0">>, <<"&","p","n","=","P","h","o","n","e","P","e"," ","S","u","p","p","o","r","t">> }
    IN { h \o p \o t : h \in UpiHeads, p \in UpiPas, t \in UpiTails }
       \cup
       { <<"0","0","0","2","0","1","0","1","0","2","1","1","2","6","3","6","0","0","1","2","i","n",".","m","e","r","c","h","a","n","t","5","2","0","4","5","4","1","1","5","3","0","3","3","5","6","5","8","0","2","I","N","6","3","0","4","A","1","B","2">>,
         <<"0","0","0","2","0","2","0","1","0","2","1","1","2","6","3","6","0","0","1","2","i","n",".","k","i","r","a","n","a","5","2","0","4","5","4","1","1","5","3","0","3","3","5","6","5","8","0","2","I","N","6","3","0","4","C","9","D","0">>,
         <<"B","H","I","M","-","7","7","8","1">>, <<"p","a","y","t","m","q","r","2","8","1","0","0","5","0","5">>, <<"g","p","a","y"," ","t","o","k","e","n"," ","5","5","1","2">>,
         <<"h","t","t","p","s",":","/","/","e","x","a","m","p","l","e",".","o","r","g","/","p","a","y">>, <<"h","t","t","p",":","/","/","g","p","a","y","-","o","f","f","e","r","s",".","c","o","m","/","a">>, <<"h","t","t","p","x"," ","g","p","a","y">>,
         <<"a","l","i","c","e","@","o","k","a","x","i","s">>, <<"u","s","e","r","@","u","n","k","n","o","w","n","p","r","o","v","i","d","e","r","1","2","3">>, <<"a","@","o","k","a","x","i","s">>, <<"b","a","d","_","f","o","r","m","a","t">>,
         <<"m","a","i","l","t","o",":","a","l","i","c","e","@","o","k","a","x","i","s">>, <<"g","e","o",":","1","2",".","9","7",",","7","7",".","5","9">>, <<"s","e","e"," ","g","o","o","g","l","e",".","n","a","v","i","g","a","t","i","o","n",":","q","=","1","2">>,
         <<"t","e","l",":","9","8","7","6","5","4","3","2","1","0">>, <<"s","m","s",":","9","8","7","6","5","4","3","2","1","0">>, <<"W","I","F","I",":","S",":","h","o","m","e",";","P",":","s","e","c","r","e","t",";",";">>,
         <<"B","E","G","I","N",":","V","C","A","R","D">>, <<"i","n","t","e","n","t",":","/","/","s","c","a","n">>, <<"h","e","l","l","o","1","2","3">>, <<"O","R","D","E","R"," ","5","5","-","A","_","7">>,
         <<"h","e","l","l","o",","," ","w","o","r","l","d","!">> }

\* the uploads: an image of each payload, and bytes that are no image
QrFiles == { IMAGE_HEADER \o p : p \in QrPayloads } \cup { <<"J","U","N","K">> }

\* what a QR request may meet: the site of a URL QR is down, and the VPA
\* validator can or cannot be imported
QrEnvs ==
    { [link |-> SiteDown(FALSE, p, FALSE), vpa_fault |-> f] : p \in {10}, f \in BOOLEAN }

InitQr ==
    /\ cache = EmptyDict
    /\ now = 0
    /\ mlModels = EmptyDict
    /\ artifacts = [xgb |-> "ok", iforest |-> "ok", scaler |-> "ok"]
    /\ arg \in [file : QrFiles, env : QrEnvs]
    /\ last = NoCall
    /\ ToolsIdle

ApplyValidateQr ==
    /\ last.op = "none"
    /\ \E r \in {validate_qr(TRUE, arg.file, mlModels, artifacts, arg.env)} :
          /\ mlModels' = r.models
          /\ last' = [op |-> "validate_qr", file |-> arg.file,
                      result |-> r.result, calls |-> r.calls]
    /\ UNCHANGED <<cache, now, artifacts, arg, tools>>

SpecQr == InitQr /\ [][ApplyValidateQr]_vars

----------------------------------------------------------------------------
(* identify_qr_content_type applied to one string.                         *)

\* the strings classified: the QR payloads, the empty string, and strings
\* that meet several rules at once
TypeInputs ==
    QrPayloads
    \cup { <<>>, <<"0","0","0","2","0","1","0","1"," ","u","p","i",":","/","/","p","a","y","?","p","a","=","a","@","b">>, <<"h","t","t","p","s",":","/","/","p","h","o","n","e","p","e",".","e","x","a","m","p","l","e",".","c","o","m","/","x">>,
           <<"u","p","i",".","s","t","o","r","e","@","o","k","a","x","i","s">>, <<"g","e","o",":","b","h","i","m">>, <<"t","e","l",":","a","l","i","c","e","@","o","k","a","x","i","s">>, <<"W","I","F","I",":","T",":","W","P","A",";","S",":","g","p","a","y",";",";">>,
           <<"w","i","f","i",":","h","o","m","e">>, <<"h","e","l","l","o">> \o <<"\n">> \o <<"1","2","3">>,
           <<"a","l","i","c","e","@","o","k","a","x","i","s">> \o <<"\n">>, <<"a","@","o","k","a","x","i","s">> \o <<"\n">>,
           <<"a","l","i","c","e","@","o","k","a","x","i","s">> \o <<"\n", "\n">> }

InitType ==
    /\ cache = EmptyDict
    /\ now = 0
    /\ mlModels = EmptyDict
    /\ artifacts = [xgb |-> "ok", iforest |-> "ok", scaler |-> "ok"]
    /\ arg \in [data : TypeInputs]
    /\ last = NoCall
    /\ ToolsIdle

ApplyIdentify ==
    /\ last.op = "none"
    /\ \E t \in {identify_qr_content_type(arg.data)} :
          last' = [op |-> "identify_qr_content_type", data |-> arg.data, type |-> t]
    /\ UNCHANGED <<cache, now, mlModels, artifacts, arg, tools>>

SpecQrType == InitType /\ [][ApplyIdentify]_vars

----------------------------------------------------------------------------
(* validate_vpa_format and the orchestrator's validate_vpa applied to one  *)
(* string.                                                                 *)

\* the strings: a local part, a separator, a provider and a tail, and
\* strings at the length limits of the format
VpaInputs ==
    LET Locals == { <<"u","s","e","r">>, <<"u">>, <<"a","l","i","c","e",".","s","-","1","_","x">>, <<"b","a","d"," ","n","a","m","e">>, <<>> }
        Separators == { <<"@">>, <<"%","4","0">>, <<"@","@">>, <<>> }
        Providers ==
            { <<"o","k","s","b","i">>, <<"O","k","S","B","I">>, <<"s","b","i">>, <<"y","b","l">>, <<"u","n","k","n","o","w","n","p","r","o","v","i","d","e","r","1","2","3">>, <<"x">>, <<"o","k"," ","s","b","i">> }
        Tails == { <<>>, <<"\n">> }
        Run(n) == [i \in 1..n |-> "a"]
    IN { l \o s \o p \o t : l \in Locals, s \in Separators, p \in Providers, t \in Tails }
       \cup { Run(256) \o <<"@","o","k","s","b","i">>, Run(257) \o <<"@","o","k","s","b","i">>,
              <<"u","s","e","r","@">> \o Run(128), <<"u","s","e","r","@">> \o Run(129) }

InitVpa ==
    /\ cache = EmptyDict
    /\ now = 0
    /\ mlModels = EmptyDict
    /\ artifacts = [xgb |-> "ok", iforest |-> "ok", scaler |-> "ok"]
    /\ arg \in [vpa : VpaInputs, vpa_fault : BOOLEAN]
    /\ last = NoCall
    /\ ToolsIdle

ApplyValidateVpaFormat ==
    /\ last.op = "none"
    /\ ~arg.vpa_fault
    /\ \E r \in {validate_vpa_format(arg.vpa)} :
          last' = [op |-> "validate_vpa_format", vpa |-> arg.vpa, result |-> r]
    /\ UNCHANGED <<cache, now, mlModels, artifacts, arg, tools>>

ApplyValidateVpa ==
    /\ last.op = "none"
    /\ \E r \in {validate_vpa(arg.vpa, arg.vpa_fault)} :
          last' = [op |-> "validate_vpa", vpa |-> arg.vpa,
                   vpa_fault |-> arg.vpa_fault, result |-> r]
    /\ UNCHANGED <<cache, now, mlModels, artifacts, arg, tools>>

NextVpa == ApplyValidateVpaFormat \/ ApplyValidateVpa

SpecVpa == InitVpa /\ [][NextVpa]_vars

----------------------------------------------------------------------------
(* stage2_dynamic/fallback_engine.py: fallback_risk.                       *)

\* a blacklist test that never answers
BlacklistIgnored(in_blacklist) == FALSE

\* "if in_blacklist:"
InBlacklist(in_blacklist) == in_blacklist

\* the level and the action for a score
FallbackLevel(score) ==
    IF score >= 70 THEN [level |-> "HIGH", action |-> "BLOCK"]
    ELSE IF score >= 40 THEN [level |-> "MEDIUM", action |-> "CHALLENGE"]
    ELSE [level |-> "LOW", action |-> "ALLOW_WITH_LOG"]

\* fallback_risk(static_score, hard_rule_hits, tls_ok, upi_in_url,
\* whois_age_days, in_blacklist).  static_score is in hundredths, so that
\* static_score * 100.0 is the number itself; whois_age_days is <<>> for
\* None and <<d>> for d days.
fallback_risk(static_score, hard_rule_hits, tls_ok, upi_in_url, whois_age_days, in_blacklist) ==
    LET hard == IF hard_rule_hits # 0
                THEN [risk |-> 20 * Min(hard_rule_hits, 3),
                      reasons |-> <<RA("hard_rules", <<hard_rule_hits>>)>>]
                ELSE [risk |-> 0, reasons |-> <<>>]
        tls == IF ~tls_ok THEN [risk |-> 25, reasons |-> <<R("tls_bad")>>]
               ELSE [risk |-> 0, reasons |-> <<>>]
        upi == IF upi_in_url THEN [risk |-> 30, reasons |-> <<R("upi_in_url")>>]
               ELSE [risk |-> 0, reasons |-> <<>>]
        whois == IF whois_age_days = <<>> THEN [risk |-> 0, reasons |-> <<>>]
                 ELSE IF whois_age_days[1] < 7
                 THEN [risk |-> 30, reasons |-> <<R("whois<7d")>>]
                 ELSE IF whois_age_days[1] < 30
                 THEN [risk |-> 15, reasons |-> <<R("whois<30d")>>]
                 ELSE IF whois_age_days[1] < 180
                 THEN [risk |-> 5, reasons |-> <<R("whois<180d")>>]
                 ELSE [risk |-> 0, reasons |-> <<>>]
        Answer(score, reasons) ==
            [level |-> FallbackLevel(score).level, score |-> score,
             action |-> FallbackLevel(score).action, reasons |-> reasons]
    IN IF InBlacklist(in_blacklist)
       THEN [level |-> "HIGH", score |-> 100, action |-> "BLOCK",
             reasons |-> hard.reasons \o <<R("in_blacklist")>>]
       ELSE Answer(Max(0, Min(100, static_score + hard.risk + tls.risk + upi.risk
                                      + whois.risk)),
                   hard.reasons \o tls.reasons \o upi.reasons \o whois.reasons)

\* the arguments fallback_risk is called with
FallbackInputs ==
    [static_score : {-20, 0, 35, 60, 100}, hard_rule_hits : {-1, 0, 1, 3, 5},
     tls_ok : BOOLEAN, upi_in_url : BOOLEAN,
     whois_age_days : {<<>>, <<-1>>, <<6>>, <<7>>, <<29>>, <<30>>, <<179>>, <<180>>},
     in_blacklist : BOOLEAN]

InitFallback ==
    /\ cache = EmptyDict
    /\ now = 0
    /\ mlModels = EmptyDict
    /\ artifacts = [xgb |-> "ok", iforest |-> "ok", scaler |-> "ok"]
    /\ arg \in FallbackInputs
    /\ last = NoCall
    /\ ToolsIdle

ApplyFallbackRisk ==
    /\ last.op = "none"
    /\ \E r \in {fallback_risk(arg.static_score, arg.hard_rule_hits, arg.tls_ok,
                               arg.upi_in_url, arg.whois_age_days, arg.in_blacklist)} :
          last' = [op |-> "fallback_risk", args |-> arg, result |-> r]
    /\ UNCHANGED <<cache, now, mlModels, artifacts, arg, tools>>

SpecFallback == InitFallback /\ [][ApplyFallbackRisk]_vars

----------------------------------------------------------------------------
(* The Stage 1 trainer: one run of the threshold search of main.           *)

\* the service at rest: nothing cached, nothing called
ServiceIdle ==
    /\ cache = EmptyDict
    /\ now = 0
    /\ mlModels = EmptyDict
    /\ artifacts = [xgb |-> "ok", iforest |-> "ok", scaler |-> "ok"]
    /\ arg = None
    /\ last = NoCall

InitTrainer ==
    /\ ServiceIdle
    /\ grid = TrainerStart
    /\ rows = EmptyDict
    /\ VPA_REPUTATION = EmptyDict
    /\ scan = ScanStart
    /\ files = EmptyDict

\* one iteration that the filter skips
SkipCombo ==
    /\ grid.pc = "search"
    /\ grid.pos < GridSize
    /\ Skipped(Combo(grid.pos).t_block, Combo(grid.pos).t_ok)
    /\ grid' = [grid EXCEPT !.pos = @ + 1]
    /\ UNCHANGED <<service, now, arg, last, rows, VPA_REPUTATION, scan, files>>

\* one iteration that evaluates its combination and keeps it when it is the
\* first or scores higher than the best so far
EvalCombo ==
    /\ grid.pc = "search"
    /\ grid.pos < GridSize
    /\ ~Skipped(Combo(grid.pos).t_block, Combo(grid.pos).t_ok)
    /\ \E score_tuple \in ScoreTuples :
          grid' = IF grid.best = None \/ TupleGreater(score_tuple, grid.best)
                  THEN [grid EXCEPT !.pos = @ + 1, !.best = score_tuple,
                                    !.best_params = Combo(grid.pos)]
                  ELSE [grid EXCEPT !.pos = @ + 1]
    /\ UNCHANGED <<service, now, arg, last, rows, VPA_REPUTATION, scan, files>>

\* eval_combo raises (roc_auc_score on a validation set of one class): main
\* ends with nothing saved
EvalRaises ==
    /\ grid.pc = "search"
    /\ grid.pos < GridSize
    /\ ~Skipped(Combo(grid.pos).t_block, Combo(grid.pos).t_ok)
    /\ grid' = [grid EXCEPT !.pc = "failed"]
    /\ UNCHANGED <<service, now, arg, last, rows, VPA_REPUTATION, scan, files>>

\* after the loops: best_params is read and ensemble_config.json is written;
\* subscripting a best_params of None raises
SaveConfig ==
    /\ grid.pc = "search"
    /\ grid.pos = GridSize
    /\ grid' = IF grid.best_params = None
               THEN [grid EXCEPT !.pc = "failed"]
               ELSE [grid EXCEPT !.pc = "saved",
                                 !.config = [w_link |-> grid.best_params.w_link,
                                             t_block |-> grid.best_params.t_block,
                                             t_ok |-> grid.best_params.t_ok]]
    /\ UNCHANGED <<service, now, arg, last, rows, VPA_REPUTATION, scan, files>>

NextTrainer == SkipCombo \/ EvalCombo \/ EvalRaises \/ SaveConfig

SpecTrainer == InitTrainer /\ [][NextTrainer]_vars

----------------------------------------------------------------------------
(* The SQLite cache: calls of set and get, and the passing of time.        *)

\* the clock counts seconds up to MaxSeconds
MaxSeconds == 3

\* the (kind, key) pairs the cache is called with
CachePairs == { <<<<"a">>, <<"b",":","c">>>>, <<<<"a",":","b">>, <<"c">>>>, <<<<"a">>, <<"c">>>> }

\* the values stored
CacheValues ==
    { [py |-> "dict", of |-> <<10>>], [py |-> "tuple", of |-> <<1, 2>>], [py |-> "None"] }

\* the lifetimes given to set
CacheTtls == {0, 2}

\* no call made yet; sets records, for each pair, the last set made for it
NoCacheCall == [op |-> "none", sets |-> EmptyDict]

InitSqlite ==
    /\ cache = EmptyDict
    /\ now = 0
    /\ mlModels = EmptyDict
    /\ artifacts = [xgb |-> "ok", iforest |-> "ok", scaler |-> "ok"]
    /\ arg = None
    /\ last = NoCacheCall
    /\ ToolsIdle

CacheSet ==
    /\ \E pair \in CachePairs, value \in CacheValues, ttl_seconds \in CacheTtls :
          /\ rows' = set(rows, pair[1], pair[2], value, ttl_seconds, now)
          /\ last' = [op |-> "set", kind |-> pair[1], key |-> pair[2],
                      sets |-> With(last.sets, pair,
                                    [value |-> value, ts |-> now, ttl |-> ttl_seconds])]
    /\ UNCHANGED <<service, now, arg, grid, VPA_REPUTATION, scan, files>>

CacheGet ==
    /\ \E pair \in CachePairs :
          \E r \in {get(rows, pair[1], pair[2], now)} :
             /\ rows' = r.table
             /\ last' = [op |-> "get", kind |-> pair[1], key |-> pair[2],
                         at |-> now, result |-> r.result, sets |-> last.sets]
    /\ UNCHANGED <<service, now, arg, grid, VPA_REPUTATION, scan, files>>

SecondPasses ==
    /\ now < MaxSeconds
    /\ now' = now + 1
    /\ UNCHANGED <<service, arg, last, tools>>

NextSqlite == CacheSet \/ CacheGet \/ SecondPasses

SpecSqlite == InitSqlite /\ [][NextSqlite]_vars

----------------------------------------------------------------------------
(* The reputation store: calls of update_reputation and get_reputation.    *)

\* the VPAs reported or observed
ReputationVpas == { <<"B","o","b","@","y","b","l">>, <<"b","o","b","@","y","b","l">>, <<"a","l","i","c","e","@","o","k","s","b","i">> }

\* no call made yet; scams is the bag of the lower-cased VPAs of the scam
\* reports made
NoReputationCall == [op |-> "none", scams |-> EmptyDict]

InitReputation ==
    /\ cache = EmptyDict
    /\ now = 0
    /\ mlModels = EmptyDict
    /\ artifacts = [xgb |-> "ok", iforest |-> "ok", scaler |-> "ok"]
    /\ arg = None
    /\ last = NoReputationCall
    /\ ToolsIdle

ReportScam ==
    /\ BagCardinality(last.scams) < MaxReports
    /\ \E vpa \in ReputationVpas :
          /\ VPA_REPUTATION' = update_reputation(VPA_REPUTATION, vpa, TRUE)
          /\ last' = [op |-> "update_reputation", vpa |-> vpa, is_scam |-> TRUE,
                      pre |-> get_reputation(VPA_REPUTATION, vpa),
                      scams |-> With(last.scams, Lower(vpa),
                                     Get(last.scams, Lower(vpa), 0) + 1)]
    /\ UNCHANGED <<service, now, arg, grid, rows, scan, files>>

ObserveClean ==
    /\ \E vpa \in ReputationVpas :
          /\ VPA_REPUTATION' = update_reputation(VPA_REPUTATION, vpa, FALSE)
          /\ last' = [op |-> "update_reputation", vpa |-> vpa, is_scam |-> FALSE,
                      pre |-> get_reputation(VPA_REPUTATION, vpa),
                      scams |-> last.scams]
    /\ UNCHANGED <<service, now, arg, grid, rows, scan, files>>

GetReputation ==
    /\ \E vpa \in ReputationVpas :
          last' = [op |-> "get_reputation", vpa |-> vpa,
                   result |-> get_reputation(VPA_REPUTATION, vpa), scams |-> last.scams]
    /\ UNCHANGED <<service, now, arg, tools>>

NextReputation == ReportScam \/ ObserveClean \/ GetReputation

SpecReputation == InitReputation /\ [][NextReputation]_vars

----------------------------------------------------------------------------
(* The batch scanner: main schedules one scan_one task for each row and    *)
(* the event loop runs the tasks from await to await.                      *)

\* the rows of the WARN list
MaxRows == 4

InitScan ==
    /\ ServiceIdle
    /\ grid = TrainerStart
    /\ rows = EmptyDict
    /\ VPA_REPUTATION = EmptyDict
    /\ scan = ScanStart
    /\ files = EmptyDict

\* main reads the rows; with none it returns, else it makes the semaphore,
\* launches the browser, creates the tasks and awaits gather
ScheduleTasks ==
    /\ scan.main = "start"
    /\ \E total \in 0..MaxRows :
          scan' = IF total = 0
                  THEN [scan EXCEPT !.main = "returned"]
                  ELSE [scan EXCEPT !.main = "gather",
                                    !.pc = [i \in 1..total |-> TaskAt("waiting", 0, 0)]]
    /\ UNCHANGED <<service, now, arg, last, grid, rows, VPA_REPUTATION, files>>
\* "async with semaphore": a task enters when the semaphore has a slot
Acquire ==
    /\ \E i \in DOMAIN scan.pc :
          /\ scan.pc[i].at = "waiting"
          /\ scan.sem > 0
          /\ scan' = [scan EXCEPT !.sem = @ - 1, !.pc[i] = TaskAt("context", 1, 0)]
    /\ UNCHANGED <<service, now, arg, last, grid, rows, VPA_REPUTATION, files>>
\* create_stealth_context and context.new_page return
NewContext ==
    /\ \E i \in DOMAIN scan.pc :
          /\ scan.pc[i].at = "context"
          /\ scan' = [scan EXCEPT !.pc[i] = TaskAt("goto", @.attempt_no, 1)]
    /\ UNCHANGED <<service, now, arg, last, grid, rows, VPA_REPUTATION, files>>
\* create_stealth_context or context.new_page raises: the exception leaves
\* the section and ends the task
ContextRaises ==
    /\ \E i \in DOMAIN scan.pc :
          /\ scan.pc[i].at = "context"
          /\ scan' = [scan EXCEPT !.sem = Exit(@), !.pc[i] = TaskAt("raised", 0, 0)]
    /\ UNCHANGED <<service, now, arg, last, grid, rows, VPA_REPUTATION, files>>
\* page.goto under one wait condition returns: the features are read, the
\* page and the context are closed, the debug JSON is written and the task
\* returns
GotoReturns ==
    /\ \E i \in DOMAIN scan.pc :
          /\ scan.pc[i].at = "goto"
          /\ scan' = [scan EXCEPT !.sem = Exit(@), !.pc[i] = TaskAt("returned", 0, 0)]
    /\ UNCHANGED <<service, now, arg, last, grid, rows, VPA_REPUTATION, files>>
\* page.goto times out or fails: the next wait condition is tried, and
\* after the last one the page and the context are closed and the task
\* backs off
GotoFails ==
    /\ \E i \in DOMAIN scan.pc :
          /\ scan.pc[i].at = "goto"
          /\ scan' = IF scan.pc[i].wait < Len(wait_sequence)
                     THEN [scan EXCEPT !.pc[i] = TaskAt("goto", @.attempt_no, @.wait + 1)]
                     ELSE [scan EXCEPT !.pc[i] = TaskAt("backoff", @.attempt_no, 0)]
    /\ UNCHANGED <<service, now, arg, last, grid, rows, VPA_REPUTATION, files>>
\* the backoff sleep returns: the next attempt starts, or after the last
\* one the debug JSON is written with its error and the task returns
Backoff ==
    /\ \E i \in DOMAIN scan.pc :
          /\ scan.pc[i].at = "backoff"
          /\ scan' = IF scan.pc[i].attempt_no < MAX_ATTEMPTS
                     THEN [scan EXCEPT !.pc[i] = TaskAt("context", @.attempt_no + 1, 0)]
                     ELSE [scan EXCEPT !.sem = Exit(@), !.pc[i] = TaskAt("returned", 0, 0)]
    /\ UNCHANGED <<service, now, arg, last, grid, rows, VPA_REPUTATION, files>>
\* gather returns when every task has returned or raised; main closes the
\* browser and counts the successes
GatherReturns ==
    /\ scan.main = "gather"
    /\ \A i \in DOMAIN scan.pc : scan.pc[i].at \in {"returned", "raised"}
    /\ scan' = [scan EXCEPT !.main = "returned"]
    /\ UNCHANGED <<service, now, arg, last, grid, rows, VPA_REPUTATION, files>>
NextScan ==
    \/ ScheduleTasks \/ Acquire \/ NewContext \/ ContextRaises
    \/ GotoReturns \/ GotoFails \/ Backoff \/ GatherReturns

SpecScan == InitScan /\ [][NextScan]_vars

\* the event loop runs a task that is ready, and every awaited call
\* returns or raises: some step is taken while one is possible
SpecScanFair == SpecScan /\ WF_vars(NextScan)

----------------------------------------------------------------------------
(* scan_one on one row, await by await: what it records in debug, the      *)
(* contexts and pages it makes and closes, the backoffs it sleeps and the  *)
(* debug JSON documents it writes.  Backoffs are in tenths of a second.    *)

\* the rows of the WARN list: a row may lack its id, and name its URL under
\* url, URL or link
ScanRows ==
    { [id |-> <<"7">>, url |-> <<"h","t","t","p",":","/","/","s","b","i","-","k","y","c",".","c","o","m","/","l","o","g","i","n">>],
      [id |-> <<>>, URL |-> <<"h","t","t","p","s",":","/","/","e","x","a","m","p","l","e",".","o","r","g","/","p","a","y">>],
      [link |-> <<"h","t","t","p",":","/","/","p","a","y","t","m","-","o","f","f","e","r","s",".","c","o","m","/","a">>],
      [id |-> <<"9">>] }

\* "a or b": the first operand unless it is empty
Or(a, b) == IF a # <<>> THEN a ELSE b

\* str(idx) for the positions a row may have
StrIdx(idx) == IF idx = 1 THEN <<"1">> ELSE <<"2">>

\* a backoff that does not grow with the attempt
FixedBackoff(attempt_no) == 5

\* "await asyncio.sleep(0.5 * attempt_no)"
BackoffTenths(attempt_no) == 5 * attempt_no

\* scan_one when it reaches "async with semaphore"
OneStart(row, idx) ==
    [at |-> "acquire",
     id_val |-> Or(Get(row, "id", <<>>), StrIdx(idx)),
     url |-> Or(Get(row, "url", <<>>), Or(Get(row, "URL", <<>>), Get(row, "link", <<>>))),
     attempt_no |-> 0, wait |-> 0, nav_success |-> FALSE, steps |-> <<>>,
     debug |-> None, made |-> <<>>, slept |-> <<>>, written |-> 0]

\* safe_write_json(debug_path, debug): a write that fails is swallowed
Written(written, write_fault) == IF write_fault THEN written ELSE written + 1

InitScanOne ==
    /\ ServiceIdle
    /\ grid = TrainerStart
    /\ rows = EmptyDict
    /\ VPA_REPUTATION = EmptyDict
    /\ files = EmptyDict
    /\ \E row \in ScanRows, idx \in 1..2, write_fault \in BOOLEAN :
          scan = OneStart(row, idx) @@ [write_fault |-> write_fault]

\* the section is entered: debug is made and the first attempt starts
EnterSection ==
    /\ scan.at = "acquire"
    /\ scan' = [scan EXCEPT !.at = "context", !.attempt_no = 1,
                            !.debug = [id |-> scan.id_val, url |-> scan.url,
                                       final_url |-> None, attempts |-> <<>>,
                                       error |-> None]]
    /\ UNCHANGED <<service, now, arg, last, grid, rows, VPA_REPUTATION, files>>

\* create_stealth_context returns a new context
CreateContext ==
    /\ scan.at = "context"
    /\ scan' = [scan EXCEPT !.at = "page",
                            !.made = Append(@, [attempt_no |-> scan.attempt_no,
                                                context |-> "open", page |-> "none"])]
    /\ UNCHANGED <<service, now, arg, last, grid, rows, VPA_REPUTATION, files>>

\* browser.new_context raises: the exception leaves scan_one
CreateContextRaises ==
    /\ scan.at = "context"
    /\ scan' = [scan EXCEPT !.at = "raised"]
    /\ UNCHANGED <<service, now, arg, last, grid, rows, VPA_REPUTATION, files>>

\* context.new_page returns a new page
NewPage ==
    /\ scan.at = "page"
    /\ scan' = [scan EXCEPT !.at = "goto", !.wait = 1, !.nav_success = FALSE,
                            !.steps = <<>>, !.made[Len(scan.made)].page = "open"]
    /\ UNCHANGED <<service, now, arg, last, grid, rows, VPA_REPUTATION, files>>

\* context.new_page raises: the exception leaves scan_one
NewPageRaises ==
    /\ scan.at = "page"
    /\ scan' = [scan EXCEPT !.at = "raised"]
    /\ UNCHANGED <<service, now, arg, last, grid, rows, VPA_REPUTATION, files>>

\* page.goto returns: the step is recorded and the wait sequence is left
GotoSucceeds ==
    /\ scan.at = "goto"
    /\ scan' = [scan EXCEPT !.at = "close", !.nav_success = TRUE,
                            !.debug.final_url = scan.url,
                            !.debug.attempts =
                                Append(@, [attempt_no |-> scan.attempt_no,
                                           steps |-> Append(scan.steps,
                                               [wait_until |-> wait_sequence[scan.wait],
                                                result |-> "ok"])])]
    /\ UNCHANGED <<service, now, arg, last, grid, rows, VPA_REPUTATION, files>>

\* page.goto times out or raises another error: the step is recorded with
\* its error and the next wait condition is tried, if there is one
GotoRaises(result) ==
    /\ scan.at = "goto"
    /\ scan' = IF scan.wait < Len(wait_sequence)
               THEN [scan EXCEPT !.wait = @ + 1,
                                 !.steps = Append(@, [wait_until |-> wait_sequence[scan.wait],
                                                      result |-> result])]
               ELSE [scan EXCEPT !.at = "close",
                                 !.debug.attempts =
                                     Append(@, [attempt_no |-> scan.attempt_no,
                                                steps |-> Append(scan.steps,
                                                    [wait_until |-> wait_sequence[scan.wait],
                                                     result |-> result])])]
    /\ UNCHANGED <<service, now, arg, last, grid, rows, VPA_REPUTATION, files>>

GotoTimesOut == GotoRaises("timeout")

GotoErrors == GotoRaises("error")

\* page.close and context.close are awaited; after a navigation that
\* succeeded the debug JSON is written and scan_one returns, else the
\* error is recorded and the backoff sleep starts
CloseAttempt ==
    /\ scan.at = "close"
    /\ scan' = IF scan.nav_success
               THEN [scan EXCEPT !.at = "returned", !.debug.error = None,
                                 !.made[Len(scan.made)] =
                                     [@ EXCEPT !.context = "closed", !.page = "closed"],
                                 !.written = Written(@, scan.write_fault)]
               ELSE [scan EXCEPT !.at = "backoff", !.debug.error = [failed |-> scan.attempt_no],
                                 !.made[Len(scan.made)] =
                                     [@ EXCEPT !.context = "closed", !.page = "closed"],
                                 !.slept = Append(@, BackoffTenths(scan.attempt_no))]
    /\ UNCHANGED <<service, now, arg, last, grid, rows, VPA_REPUTATION, files>>

\* the backoff sleep returns: the next attempt starts, or after the last
\* one the debug JSON is written and scan_one returns
BackoffReturns ==
    /\ scan.at = "backoff"
    /\ scan' = IF scan.attempt_no < MAX_ATTEMPTS
               THEN [scan EXCEPT !.at = "context", !.attempt_no = @ + 1]
               ELSE [scan EXCEPT !.at = "returned",
                                 !.written = Written(@, scan.write_fault)]
    /\ UNCHANGED <<service, now, arg, last, grid, rows, VPA_REPUTATION, files>>

NextScanOne ==
    \/ EnterSection \/ CreateContext \/ CreateContextRaises \/ NewPage \/ NewPageRaises
    \/ GotoSucceeds \/ GotoTimesOut \/ GotoErrors \/ CloseAttempt \/ BackoffReturns

SpecScanOne == InitScanOne /\ [][NextScanOne]_vars

----------------------------------------------------------------------------
(* validate_url_stage2 applied to one URL.                                 *)

ApplyValidateUrlStage2 ==
    /\ last.op = "none"
    /\ last' = [op |-> "validate_url_stage2", url |-> arg.url, fault |-> arg.env.s2.fault,
                scanned |-> scan_url_headless(arg.url, arg.env.s2.net),
                result |-> validate_url_stage2(arg.url, arg.env.s2)]
    /\ UNCHANGED <<cache, now, mlModels, artifacts, arg, tools>>

SpecStage2 == InitLink /\ [][ApplyValidateUrlStage2]_vars

----------------------------------------------------------------------------
(* stage2_dynamic/stage2_dynamic.py: run_batch_scoring.  Scores are in     *)
(* hundredths; a CSV file is the sequence of its rows.                     *)

T_BLOCK == 85
T_OK == 15

t_ok_relaxed == 10
t_block_relaxed == 25

\* the candidate rows scored in a run
MaxCandidates == 3

\* the final scores the ensemble may give a candidate
FinalScores == {5, 12, 20, 50, 90}

\* "BLOCK" if final >= T_BLOCK else ("OK" if final <= T_OK else "WARN")
BatchVerdict(final) ==
    IF final >= T_BLOCK THEN "BLOCK" ELSE IF final <= T_OK THEN "OK" ELSE "WARN"

\* the scored table of the candidates whose final scores are finals
Scored(finals) ==
    [i \in 1..Len(finals) |-> [id |-> i, verdict |-> BatchVerdict(finals[i]), final |-> finals[i]]]

\* the columns id, url and label_is_phish of the rows of a table
IdColumns(table) == [i \in 1..Len(table) |-> [id |-> table[i].id]]

\* scored.loc[mask_relaxed, ...]
RelaxedWarn(scored) ==
    LET InRelaxed(row) == row.final > t_ok_relaxed /\ row.final < t_block_relaxed
    IN IdColumns(SelectSeq(scored, InRelaxed))

\* scored[scored["verdict"] == "WARN"][...]
ActualWarn(scored) ==
    LET IsWarn(row) == row.verdict = "WARN"
    IN IdColumns(SelectSeq(scored, IsWarn))

\* the timestamped fallback file of a path
FallbackPath(path) == path \o "_out"

\* safe_write_csv(path, df): the files after the call; when the path may
\* not be written the table goes to the fallback file
safe_write_csv(fs, path, df, denied) ==
    IF path \in denied THEN With(fs, FallbackPath(path), df) ELSE With(fs, path, df)

\* shutil.copy(src, dst) inside "try ... except Exception": the files
\* after the call, unchanged when the copy raises
CopyOrSkip(fs, src, dst, denied) ==
    IF src \in DOMAIN fs /\ dst \notin denied THEN With(fs, dst, fs[src]) ELSE fs

\* what the DATA directory may hold before a run
OldFiles == { EmptyDict, [f \in {"warn_urls.csv"} |-> <<[id |-> 0]>>] }

InitBatch ==
    /\ cache = EmptyDict
    /\ now = 0
    /\ mlModels = EmptyDict
    /\ artifacts = [xgb |-> "ok", iforest |-> "ok", scaler |-> "ok"]
    /\ arg = None
    /\ grid = TrainerStart
    /\ rows = EmptyDict
    /\ VPA_REPUTATION = EmptyDict
    /\ scan = ScanStart
    /\ files \in OldFiles
    /\ \E n \in 1..MaxCandidates :
          \E finals \in [1..n -> FinalScores],
             denied \in SUBSET {"scored_full.csv", "warn_urls_relaxed.csv", "warn_urls.csv"} :
             last = [op |-> "run_batch_scoring", at |-> "read", finals |-> finals,
                     denied |-> denied, scored |-> <<>>, relaxed_warn |-> <<>>,
                     warn |-> <<>>]

\* the candidates are scored, one row each
ScoreCandidates ==
    /\ last.op = "run_batch_scoring" /\ last.at = "read"
    /\ last' = [last EXCEPT !.at = "scored", !.scored = Scored(last.finals)]
    /\ UNCHANGED <<service, now, arg, tools>>

\* scored_full.csv is written
SaveScored ==
    /\ last.op = "run_batch_scoring" /\ last.at = "scored"
    /\ files' = safe_write_csv(files, "scored_full.csv", last.scored, last.denied)
    /\ last' = [last EXCEPT !.at = "relaxed"]
    /\ UNCHANGED <<service, now, arg, grid, rows, VPA_REPUTATION, scan>>

\* the relaxed WARN rows: when there are some, warn_urls_relaxed.csv is
\* written and copied to warn_urls.csv
SaveRelaxed ==
    /\ last.op = "run_batch_scoring" /\ last.at = "relaxed"
    /\ \E relaxed_warn \in {RelaxedWarn(last.scored)} :
          /\ files' = IF relaxed_warn # <<>>
                      THEN CopyOrSkip(safe_write_csv(files, "warn_urls_relaxed.csv",
                                                     relaxed_warn, last.denied),
                                      "warn_urls_relaxed.csv", "warn_urls.csv", last.denied)
                      ELSE files
          /\ last' = [last EXCEPT !.at = "warn", !.relaxed_warn = relaxed_warn]
    /\ UNCHANGED <<service, now, arg, grid, rows, VPA_REPUTATION, scan>>

\* the actual WARN rows are written to warn_urls.csv
SaveWarn ==
    /\ last.op = "run_batch_scoring" /\ last.at = "warn"
    /\ \E warn \in {ActualWarn(last.scored)} :
          /\ files' = safe_write_csv(files, "warn_urls.csv", warn, last.denied)
          /\ last' = [last EXCEPT !.at = "done", !.warn = warn]
    /\ UNCHANGED <<service, now, arg, grid, rows, VPA_REPUTATION, scan>>

NextBatch == ScoreCandidates \/ SaveScored \/ SaveRelaxed \/ SaveWarn

SpecBatch == InitBatch /\ [][NextBatch]_vars

----------------------------------------------------------------------------
(* link_validation/validator.py: the module-level model cache over the     *)
(* validate_url calls of one process.                                      *)

\* the validate_url calls of a process
MaxCalls == 3

\* a trusted URL, a blacklisted one and one the models score
ModelUrls == { <<"h","t","t","p","s",":","/","/","w","w","w",".","g","o","o","g","l","e",".","c","o","m","/","s","e","a","r","c","h">>, <<"h","t","t","p",":","/","/","s","b","i","-","k","y","c",".","c","o","m","/","l","o","g","i","n">>,
               <<"h","t","t","p","s",":","/","/","e","x","a","m","p","l","e",".","o","r","g","/","p","a","y">> }

\* a process that forgets _ML_MODELS between calls
ForgottenModels(models) == EmptyDict

\* _ML_MODELS as a call finds it: the module-level dict of the process
CachedModels(models) == models

\* validate_url gets as far as "models = load_models()"
ReachesLoadModels(url, env) ==
    /\ ~is_trusted_domain(url)
    /\ ~UrlparseRaises(url)
    /\ ~check_domain_blacklist(url).is_blacklisted
    /\ env.fault # "import"

\* the artifact files joblib.load opens in a load_models() call
ArtifactsRead(models, art) ==
    IF DOMAIN models # {} \/ art.xgb = "missing" THEN {}
    ELSE IF art.xgb # "ok" THEN {"xgb"}
    ELSE IF art.iforest = "corrupt" THEN {"xgb", "iforest"}
    ELSE {"xgb", "scaler"} \cup (IF art.iforest = "ok" THEN {"iforest"} ELSE {})

\* the process before its first call: no model set has been returned yet
ProcessStart ==
    [op |-> "start", n |-> 0, touched |-> FALSE, returned |-> FALSE,
     first_set |-> EmptyDict]

InitModels ==
    /\ cache = EmptyDict
    /\ now = 0
    /\ mlModels = EmptyDict
    /\ artifacts \in ArtifactConfigs
    /\ arg \in [env : {Stage1Answers(10), Stage1Answers(90),
                      [Stage1Answers(50) EXCEPT !.fault = "import"]}]
    /\ last = ProcessStart
    /\ ToolsIdle

\* one validate_url call; the record keeps what its load_models() call
\* returned and read, the call before it, and the first model set a
\* load_models() call returned before this call
CallValidateUrl ==
    /\ last.n < MaxCalls
    /\ \E url \in ModelUrls :
       \E found \in {CachedModels(mlModels)} :
       \E r \in {validate_url(url, found, artifacts, arg.env)},
          ld \in {load_models(found, artifacts)},
          called \in {ReachesLoadModels(url, arg.env)} :
          /\ mlModels' = r.models
          /\ last' = [op |-> "validate_url", n |-> last.n + 1, touched |-> FALSE,
                      url |-> url, verdict |-> r.result.verdict, score |-> r.result.score,
                      called |-> called,
                      ret_none |-> called /\ ld.none,
                      ret |-> IF called THEN ld.ret ELSE EmptyDict,
                      read |-> IF called THEN ArtifactsRead(found, artifacts) ELSE {},
                      steady |-> ~last.touched,
                      before |-> IF last.op = "validate_url"
                                 THEN [op |-> "validate_url", url |-> last.url,
                                       verdict |-> last.verdict, score |-> last.score]
                                 ELSE NoCall,
                      had_returned |-> last.returned,
                      returned |-> last.returned \/ (called /\ ~ld.none),
                      first_set |-> IF ~last.returned /\ called /\ ~ld.none
                                    THEN ld.ret ELSE last.first_set]
    /\ UNCHANGED <<cache, now, artifacts, arg, tools>>

\* the artifact files change on disk between two calls
ArtifactsChange ==
    /\ last.n < MaxCalls
    /\ \E a \in ArtifactConfigs \ {artifacts} : artifacts' = a
    /\ last' = [last EXCEPT !.touched = TRUE]
    /\ UNCHANGED <<cache, now, mlModels, arg, tools>>

NextModels == CallValidateUrl \/ ArtifactsChange

SpecModels == InitModels /\ [][NextModels]_vars

----------------------------------------------------------------------------
(* validate_input applied to one request of each of the four paths.        *)

\* the requests: links, VPAs, messages and uploaded QR images
PathRequests ==
    { Text(<<"l","i","n","k">>, u) : u \in LinkInputs }
    \cup { Text(<<"v","p","a">>, v) : v \in VpaInputs }
    \cup { Text(<<"m","e","s","s","a","g","e">>, m) : m \in MessageInputs }
    \cup { Upload(f) : f \in QrFiles }
    \cup { Upload(IMAGE_HEADER \o u) : u \in LinkInputs }

\* what a request may meet: as RequestEnvs, with Stage 1 also answering a
\* high probability
PathEnvs(req) ==
    { [e EXCEPT !.link = l, !.urls = <<l, l>>] :
         e \in RequestEnvs(req),
         l \in {SiteDown(FALSE, p, FALSE) : p \in {10, 90}} }

InitInput ==
    /\ cache = EmptyDict
    /\ now = 0
    /\ mlModels = EmptyDict
    /\ artifacts = [xgb |-> "ok", iforest |-> "ok", scaler |-> "ok"]
    /\ \E req \in PathRequests : \E e \in PathEnvs(req) : arg = [req |-> req, env |-> e]
    /\ last = NoCall
    /\ ToolsIdle

ApplyValidateInput ==
    /\ last.op = "none"
    /\ \E r \in {validate_input(arg.req, cache, now, mlModels, artifacts, arg.env)} :
          /\ cache' = r.cache
          /\ mlModels' = r.models
          /\ last' = [op |-> "validate_input", req |-> arg.req, result |-> r.result,
                      calls |-> r.calls]
    /\ UNCHANGED <<now, artifacts, arg, tools>>

SpecInput == InitInput /\ [][ApplyValidateInput]_vars

----------------------------------------------------------------------------
(* Properties of the cache's expiry, the QR and VPA paths, the fallback    *)
(* engine, the trainer's grid, the SQLite cache, the reputation store and  *)
(* the batch scanner.                                                      *)

\* the last call went through validate_input's cache lookup
LookedUp ==
    \/ last.op = "validate_input"
    \/ last.op = "POST /validate" /\ last.called

\* the lookup of the last call found an entry aged 24 hours or more
FoundExpired ==
    /\ LookedUp
    /\ last.pre.present
    /\ last.at - last.pre.entry.timestamp >= 24

\* the lookup of an expired entry: it is not returned, the validator is
\* re-run and the entry found is gone
ExpiredIsMissed ==
    FoundExpired
    => /\ "cached" \in DOMAIN last.result => ~last.result.cached
       /\ last.calls # <<>>
       /\ last.key \in DOMAIN cache => cache[last.key] # last.pre.entry

\* an entry leaves the cache only in the lookup that finds it expired
RemovedOnlyWhenExpired ==
    \A k \in DOMAIN cache :
       k \notin DOMAIN cache'
       => /\ last'.op \in {"validate_input", "POST /validate"}
          /\ last'.key = k
          /\ last'.pre.present
          /\ last'.at - last'.pre.entry.timestamp >= 24

QrPayload == decode_qr(TRUE, last.file).data

\* the positions where a parameter named pa with a value starts in a payload
PaStarts(payload) ==
    {i \in 2..(Len(payload) - 3) :
        /\ payload[i - 1] \in {"?", "&"}
        /\ OccursAt(payload, <<"p","a","=">>, i)
        /\ payload[i + 3] # "&"}

\* the value of the first pa parameter: up to the next "&" or the end
PaValue(payload) ==
    LET i == Least(PaStarts(payload))
    IN SubSeq(payload, i + 3,
              Least({k \in (i + 3)..(Len(payload) + 1) :
                        k = Len(payload) + 1 \/ payload[k] = "&"}) - 1)

\* C12: for a decoded QR payload that begins with upi:// and carries a pa
\* parameter, validate_qr returns the URL-decoded VPA and the verdict,
\* risk_score and reasons the VPA path gives for it; a upi:// payload
\* without pa yields WARN with risk_score 0.5.
C12_UpiQrGoesThroughVpaPath ==
    (/\ last.op = "validate_qr"
     /\ decode_qr(TRUE, last.file).found
     /\ StartsWith(QrPayload, <<"u","p","i",":","/","/">>))
    => IF PaStarts(QrPayload) # {}
       THEN /\ "vpa" \in DOMAIN last.result
            /\ last.result.vpa = unquote(PaValue(QrPayload))
            /\ last.calls = <<"vpa">>
            /\ \A k \in {"verdict", "risk_score", "reasons"} :
                  last.result[k]
                     = validate_vpa(unquote(PaValue(QrPayload)), arg.env.vpa_fault)[k]
       ELSE /\ last.result.verdict = "WARN"
            /\ last.result.risk_score = 50
            /\ last.calls = <<>>

\* the types identify_qr_content_type may answer
QRContentTypes ==
    {"protected_payment", "upi", "url", "vpa", "geo", "tel", "mailto", "sms",
     "wifi", "vcard", "intent", "text", "unknown"}

\* s without the characters of chars
Strip(s, chars) == SelectSeq(s, LAMBDA c : c \notin chars)

\* the rules in their order: whether the rule matches the string, and the
\* type it gives
TypeRules(d) == <<
    [hit |-> \E p \in { <<"0","0","0","2","0","1","0","1">>, <<"0","0","0","2","0","2","0","1">> } : StartsWith(d, p),
     type |-> "protected_payment"],
    [hit |-> /\ ~StartsWith(d, <<"h","t","t","p">>)
             /\ \E kw \in { <<"b","h","i","m">>, <<"p","h","o","n","e","p","e">>, <<"p","a","y","t","m","m","p">>, <<"p","a","y","t","m","q","r">>, <<"b","h","a","r","a","t","p","e">>, <<"g","p","a","y">> } :
                   Contains(Lower(d), kw),
     type |-> "protected_payment"],
    [hit |-> StartsWith(d, <<"u","p","i",":","/","/">>), type |-> "upi"],
    [hit |-> StartsWith(d, <<"h","t","t","p",":","/","/">>) \/ StartsWith(d, <<"h","t","t","p","s",":","/","/">>), type |-> "url"],
    [hit |-> /\ ~StartsWith(d, <<"u","p","i">>) /\ ~StartsWith(d, <<"h","t","t","p">>)
             /\ ~StartsWith(d, <<"m","a","i","l","t","o">>)
             /\ \E at \in 3..(Len(d) - 2) : \E end \in {Len(d) - 1, Len(d)} :
                   /\ d[at] = "@" /\ at <= end - 2
                   /\ end = Len(d) - 1 => d[Len(d)] = "\n"
                   /\ \A k \in (1..end) \ {at} :
                         IsAlnum(d[k]) \/ d[k] \in {".", "-", "_"},
     type |-> "vpa"],
    [hit |-> StartsWith(d, <<"g","e","o",":">>)
             \/ Contains(d, <<"g","o","o","g","l","e",".","n","a","v","i","g","a","t","i","o","n",":">>),
     type |-> "geo"],
    [hit |-> StartsWith(d, <<"t","e","l",":">>), type |-> "tel"],
    [hit |-> StartsWith(d, <<"m","a","i","l","t","o",":">>), type |-> "mailto"],
    [hit |-> StartsWith(d, <<"s","m","s",":">>), type |-> "sms"],
    [hit |-> StartsWith(d, <<"W","I","F","I",":">>), type |-> "wifi"],
    [hit |-> StartsWith(d, <<"B","E","G","I","N",":","V","C","A","R","D">>), type |-> "vcard"],
    [hit |-> StartsWith(d, <<"i","n","t","e","n","t",":","/","/">>), type |-> "intent"],
    [hit |-> /\ Len(d) < 200
             /\ Strip(d, {" ", "-", "_", "\n"}) # <<>>
             /\ \A k \in 1..Len(d) : IsAlnum(d[k]) \/ d[k] \in {" ", "-", "_", "\n"},
     type |-> "text"],
    [hit |-> TRUE, type |-> "unknown"] >>

\* C13: identify_qr_content_type answers, for every string, one type of
\* the fixed set: the type of the first rule the string matches, in the
\* order EMVCo prefix, payment-app keyword in a string not starting with
\* http, upi:// prefix, http(s):// prefix, bare VPA format (which one
\* newline may follow) without a upi, http or mailto prefix, the system
\* intents (geo: or google.navigation:, tel:, mailto:, sms:, WIFI:,
\* BEGIN:VCARD, intent://), short alphanumeric text, unknown; the type is a
\* function of the string alone.
C13_FirstMatchingRule ==
    last.op = "identify_qr_content_type"
    => /\ last.type \in QRContentTypes
       /\ LET rules == TypeRules(last.data)
              first == Least({i \in 1..Len(rules) : rules[i].hit})
          IN last.type = rules[first].type

\* C13 happens: a string that matches a later rule as well is given the
\* type of the earlier one (a upi:// string with a payment-app keyword)
C13_Witness ==
    /\ last.op = "identify_qr_content_type"
    /\ TypeRules(last.data)[2].hit
    /\ TypeRules(last.data)[3].hit
    /\ last.type = "protected_payment"

\* C14: for a QR payload classified protected_payment the result of
\* validate_qr carries the literal "[Encrypted Data]" as its decoded field
\* and does not depend on the payload: it is the result every other
\* protected_payment payload gets.
C14_ProtectedPayloadIsNotEchoed ==
    (/\ last.op = "validate_qr"
     /\ decode_qr(TRUE, last.file).found
     /\ identify_qr_content_type(QrPayload) = "protected_payment")
    => /\ last.result.decoded = <<"[","E","n","c","r","y","p","t","e","d"," ","D","a","t","a","]">>
       /\ \A p \in QrPayloads :
             identify_qr_content_type(p) = "protected_payment"
             => validate_qr(TRUE, IMAGE_HEADER \o p, mlModels, artifacts, arg.env).result
                   = last.result

\* the format local@provider: 2 to 256 and 2 to 128 characters out of
\* letters, digits, ".", "-" and "_" around one "@" (one newline may follow,
\* as "$" of the pattern allows)
VpaFormatOk(s) ==
    \E at \in 1..Len(s) : \E end \in {Len(s) - 1, Len(s)} :
       /\ s[at] = "@"
       /\ end = Len(s) - 1 => s[Len(s)] = "\n"
       /\ at - 1 >= 2 /\ at - 1 <= 256
       /\ end - at >= 2 /\ end - at <= 128
       /\ \A k \in (1..end) \ {at} : IsAlnum(s[k]) \/ s[k] \in {".", "-", "_"}

\* the provider of a well-formed VPA, lower-cased: what follows the "@"
VpaProvider(s) ==
    Lower(SubSeq(s, (CHOOSE at \in 1..Len(s) : s[at] = "@") + 1, Len(s)))

\* the outcome of the claim for a string: verdict, risk and institution
VpaOutcome(s) ==
    IF ~VpaFormatOk(s) THEN [verdict |-> "BLOCK", risk_score |-> 90]
    ELSE IF \E p \in KNOWN_PROVIDERS : p.provider = VpaProvider(s)
    THEN [verdict |-> "OK", risk_score |-> 10,
          provider |-> (CHOOSE p \in KNOWN_PROVIDERS : p.provider = VpaProvider(s)).name]
    ELSE [verdict |-> "WARN", risk_score |-> 50]

\* the value with its "%40" escapes decoded (the strings hold no other)
PercentDecoded(s) == Replace(s, <<"%","4","0">>, <<"@">>)

\* validate_vpa_format gives the string the claim's outcome
FormatOutcomeHolds ==
    last.op = "validate_vpa_format"
    => /\ last.result.verdict = VpaOutcome(last.vpa).verdict
       /\ last.result.risk_score = VpaOutcome(last.vpa).risk_score
       /\ last.result.verdict = "OK" => last.result.provider = VpaOutcome(last.vpa).provider

\* validate_vpa answers the decoded value as validate_vpa_format does
PathFollowsFormat ==
    /\ last.result.verdict = VpaOutcome(PercentDecoded(last.vpa)).verdict
    /\ last.result.risk_score = VpaOutcome(PercentDecoded(last.vpa)).risk_score
    /\ last.result.input.value = PercentDecoded(last.vpa)

C16_BlacklistDominates ==
    (last.op = "fallback_risk" /\ last.args.in_blacklist)
    => /\ last.result.level = "HIGH"
       /\ last.result.score = 100
       /\ last.result.action = "BLOCK"

\* C16 happens: a blacklisted URL whose other arguments alone give LOW
\* (static score 0, no rule hit, good TLS, an old domain) is blocked
C16_Witness ==
    /\ last.op = "fallback_risk"
    /\ last.args.in_blacklist
    /\ fallback_risk(last.args.static_score, last.args.hard_rule_hits, last.args.tls_ok,
                     last.args.upi_in_url, last.args.whois_age_days, FALSE).level = "LOW"
    /\ last.result.action = "BLOCK"

----------------------------------------------------------------------------
\* C17: every ensemble configuration the trainer saves is a combination of
\* the grid with both thresholds within [0, 1] and t_ok < t_block - 0.15,
\* hence t_ok < t_block; and when the loops end a combination has been
\* selected, so a run that evaluates without error saves one.
C17_SavedThresholdsAreOrdered ==
    /\ grid.pc = "saved" =>
          /\ grid.config.t_ok < grid.config.t_block
          /\ grid.config.t_ok < grid.config.t_block - 150
          /\ 0 <= grid.config.t_ok /\ grid.config.t_ok <= 1000
          /\ 0 <= grid.config.t_block /\ grid.config.t_block <= 1000
          /\ \E pos \in 0..(GridSize - 1) :
                /\ Combo(pos) = grid.config
                /\ grid.config.w_link \in {80, 85, 90}
    /\ grid.pc = "search" /\ grid.pos = GridSize => grid.best_params # None
    /\ grid.pc = "failed" => grid.pos < GridSize /\ grid.config = None

\* a saved configuration that replaced the first combination evaluated
C17_Witness ==
    /\ grid.pc = "saved"
    /\ grid.config # Combo(0)
    /\ grid.config.t_ok = 375

----------------------------------------------------------------------------
\* the last set made for the pair of the last get, when there is one
LastSetOfPair == last.sets[<<last.kind, last.key>>]

\* C18: get(kind, key) returns the deserialized value of the most recent set
\* made for that same pair while now - ts <= ttl for that set, whatever was
\* set for other pairs; once now - ts > ttl it returns absent and the row is
\* gone.
C18_GetReturnsLastSetOfPair ==
    last.op = "get" /\ <<last.kind, last.key>> \in DOMAIN last.sets =>
       IF last.at - LastSetOfPair.ts <= LastSetOfPair.ttl
       THEN last.result = loads(dumps(LastSetOfPair.value))
       ELSE /\ last.result = [py |-> "None"]
            /\ RowKey(last.kind, last.key) \notin DOMAIN rows

----------------------------------------------------------------------------
\* what one call of update_reputation makes of the record it finds
ReputationStep ==
    last'.op = "update_reputation" /\ last' # last =>
       /\ last'.pre = get_reputation(VPA_REPUTATION, last'.vpa)
       /\ VPA_REPUTATION'[Lower(last'.vpa)] =
             IF last'.is_scam
             THEN [reports |-> last'.pre.reports + 1, trust |-> (last'.pre.trust * 3) \div 4]
             ELSE [reports |-> last'.pre.reports,
                   trust |-> IF last'.pre.trust + TrustOne \div 20 > TrustOne THEN TrustOne
                             ELSE last'.pre.trust + TrustOne \div 20]
       /\ \A k \in DOMAIN VPA_REPUTATION' \ {Lower(last'.vpa)} :
             k \in DOMAIN VPA_REPUTATION /\ VPA_REPUTATION'[k] = VPA_REPUTATION[k]

\* C19: every stored record has trust within [0, 1] and reports equal to the
\* number of scam reports made for that lower-cased VPA; a scam report
\* multiplies trust by 0.75 and increments reports, a clean observation adds
\* 0.05 to trust, capped at 1.0, and leaves reports unchanged, from a record
\* that starts as {reports 0, trust 0.5}.
C19_ReputationRecords ==
    /\ [](\A k \in DOMAIN VPA_REPUTATION :
             /\ k = Lower(k)
             /\ 0 <= VPA_REPUTATION[k].trust /\ VPA_REPUTATION[k].trust <= TrustOne
             /\ VPA_REPUTATION[k].reports = Get(last.scams, k, 0))
    /\ [][ReputationStep]_vars

\* a record that was reported under two spellings and then observed clean
\* until its trust reached 1.0
C19_Witness ==
    /\ <<"b","o","b","@","y","b","l">> \in DOMAIN VPA_REPUTATION
    /\ VPA_REPUTATION[<<"b","o","b","@","y","b","l">>].reports = 2
    /\ VPA_REPUTATION[<<"b","o","b","@","y","b","l">>].trust = TrustOne
    /\ last.op = "update_reputation" /\ last.vpa = <<"B","o","b","@","y","b","l">> /\ ~last.is_scam
    /\ last.pre.trust > TrustOne - TrustOne \div 20
    /\ last.pre.trust < TrustOne

----------------------------------------------------------------------------
\* the task of row i has returned or raised
RowEnded(i) == i \in DOMAIN scan.pc /\ scan.pc[i].at \in {"returned", "raised"}

\* C20: at every moment at most 3 scan_one tasks are inside the section the
\* semaphore guards, whatever the number of rows; the slots taken are those
\* of the tasks inside, so a task that returns or raises has released its
\* slot; and every row's task eventually returns or raises, after which
\* main returns.
C20_AtMostThreeScanning ==
    /\ [](/\ Cardinality(InSection(scan.pc)) <= 3
          /\ scan.sem = 3 - Cardinality(InSection(scan.pc)))
    /\ \A i \in 1..(MaxRows + 1) :
          (i \in DOMAIN scan.pc) ~> RowEnded(i)
    /\ (scan.main = "gather") ~> (scan.main = "returned")
    /\ [](scan.main = "returned" => \A i \in DOMAIN scan.pc : RowEnded(i))

\* three tasks are inside the section, one of them in the slot a task that
\* raised has released
C20_Witness ==
    /\ Cardinality(InSection(scan.pc)) = 3
    /\ scan.sem = 0
    /\ Len(scan.pc) = 4
    /\ \E i \in DOMAIN scan.pc : scan.pc[i].at = "raised"

----------------------------------------------------------------------------
\* the attempts scan_one has recorded, and those among them with a step
\* that succeeded
Attempts == IF scan.debug = None THEN <<>> ELSE scan.debug.attempts

StepSucceeded(attempt) == \E k \in DOMAIN attempt.steps : attempt.steps[k].result = "ok"

\* C21: for each URL at most 2 attempts are made; each attempt tries
\* domcontentloaded then networkidle in that order; the first navigation
\* step that succeeds ends the step sequence and the attempt loop; a
\* failed attempt n is followed by a backoff of 0.5 * n seconds; and the
\* recorded error is empty exactly when some step succeeded.
C21_AttemptsAndBackoff ==
    /\ Len(Attempts) <= 2 /\ scan.attempt_no <= 2
    /\ \A n \in DOMAIN Attempts :
          /\ Attempts[n].attempt_no = n
          /\ Len(Attempts[n].steps) \in 1..2
          /\ \A k \in DOMAIN Attempts[n].steps :
                /\ Attempts[n].steps[k].wait_until = <<"domcontentloaded", "networkidle">>[k]
                /\ Attempts[n].steps[k].result = "ok" =>
                      /\ k = Len(Attempts[n].steps)
                      /\ n = Len(Attempts)
                      /\ scan.at \in {"close", "returned"}
    /\ \A n \in DOMAIN scan.slept : scan.slept[n] = 5 * n /\ ~StepSucceeded(Attempts[n])
    /\ scan.at \in {"backoff", "returned"} =>
          Len(scan.slept) = Cardinality({n \in DOMAIN Attempts : ~StepSucceeded(Attempts[n])})
    /\ scan.at = "returned" =>
          (scan.debug.error = None <=> \E n \in DOMAIN Attempts : StepSucceeded(Attempts[n]))

\* a first attempt that failed under both wait conditions and slept 0.5 s,
\* then a second that succeeded under networkidle
C21_Witness ==
    /\ scan.at = "returned"
    /\ Len(Attempts) = 2
    /\ scan.slept = <<5>>
    /\ Len(Attempts[2].steps) = 2
    /\ Attempts[2].steps[2].result = "ok"
    /\ Attempts[1].steps[1].result = "timeout"
    /\ scan.debug.error = None

\* C22: for every row handed to scan_one a debug JSON document is written
\* exactly once before the task completes: after a navigation that
\* succeeded, after all attempts failed, and when creating the context or
\* the page of an attempt fails.
C22_DebugWrittenOnce ==
    /\ scan.written <= 1
    /\ scan.at \in {"returned", "raised"} => scan.written = 1

----------------------------------------------------------------------------
\* C24: for every scanner result that is a dict without an error and
\* without the trusted-domain flag, validate_url_stage2 returns success
\* true with the score the scanner computed, and the verdict BLOCK when
\* that score is at least 0.7, WARN when at least 0.4, otherwise OK.
C24_Stage2KeepsScannerScore ==
    (/\ last.op = "validate_url_stage2"
     /\ last.fault = "none"
     /\ "error" \notin DOMAIN last.scanned
     /\ ~Truthy(Get(last.scanned, "behavioral_flags", EmptyDict), "trusted_domain"))
    => /\ last.result.success
       /\ last.result.score = last.scanned.score
       /\ last.result.verdict = IF last.scanned.score >= 70 THEN "BLOCK"
                                ELSE IF last.scanned.score >= 40 THEN "WARN" ELSE "OK"

----------------------------------------------------------------------------
\* C25: when the relaxed WARN subset of a run is not empty and every file
\* can be written, the run ends with warn_urls.csv holding the relaxed
\* subset.
C25_RelaxedSetEndsInWarnList ==
    (/\ last.op = "run_batch_scoring" /\ last.at = "done"
     /\ last.denied = {} /\ last.relaxed_warn # <<>>)
    => /\ "warn_urls.csv" \in DOMAIN files
       /\ files["warn_urls.csv"] = last.relaxed_warn

----------------------------------------------------------------------------
\* C26: once a load_models call has returned a model set, every later
\* load_models call of the process returns that same set, reads no artifact
\* file and leaves the cache as it is, whatever URLs are validated and
\* however the artifact files change in between.
C26_ModelCacheNeverInvalidated ==
    (last.op = "validate_url" /\ last.called /\ last.had_returned)
    => /\ ~last.ret_none
       /\ last.ret = last.first_set
       /\ last.read = {}
       /\ mlModels = last.first_set

\* a later call asks for the models after the XGBoost file has gone
C26_Witness ==
    /\ last.op = "validate_url" /\ last.called /\ last.had_returned
    /\ artifacts.xgb = "missing"
    /\ "xgb" \in DOMAIN last.ret

\* C27: a load_models call that returns None leaves the model cache empty,
\* and two consecutive validate_url calls on the same URL with the artifact
\* files unchanged in between return the same verdict and score.
C27_FailedLoadLeavesCacheEmpty ==
    /\ (last.op = "validate_url" /\ last.called /\ last.ret_none)
       => mlModels = EmptyDict
    /\ (/\ last.op = "validate_url" /\ last.before.op = "validate_url"
        /\ last.steady /\ last.before.url = last.url)
       => (last.verdict = last.before.verdict /\ last.score = last.before.score)

----------------------------------------------------------------------------
\* a call of validate_input was answered from the cache: it found an entry
\* under its key that is younger than the expiry
AnsweredFromCache ==
    /\ last.op = "validate_input" \/ (last.op = "POST /validate" /\ last.called)
    /\ last.pre.present
    /\ last.at - last.pre.entry.timestamp < _CACHE_EXPIRY_HOURS

\* C28: a call of validate_input answered from the cache leaves the cache as
\* it was (the same keys, results and timestamps), and any call changes at
\* most the entry under the request's own key, whichever path it takes.
C28_HitWritesNothing ==
    [][/\ AnsweredFromCache' => cache' = cache
       /\ last'.op \in {"validate_input", "POST /validate"}
             => \A k \in (DOMAIN cache \cup DOMAIN cache') \ {last'.key} :
                   /\ k \in DOMAIN cache
                   /\ k \in DOMAIN cache'
                   /\ cache'[k] = cache[k]]_vars

\* a message was answered from an older entry while the cache holds other
\* entries too
C28_Witness ==
    /\ AnsweredFromCache
    /\ last.req.type = <<"m","e","s","s","a","g","e">>
    /\ last.at > last.pre.entry.timestamp
    /\ cache[last.key] = last.pre.entry
    /\ Cardinality(DOMAIN cache) >= 2

----------------------------------------------------------------------------
\* C29: in the link path, whatever Stage 2 did (not run, raised, answered
\* without success, answered with success), the final verdict is at least
\* as severe as Stage 1's verdict (OK < WARN < BLOCK) and the final
\* risk_score is not lower than Stage 1's score; the same holds of the
\* combination with any Stage 2 verdict and score.
C29_FinalNotBelowStage1 ==
    (last.op = "validate_link" /\ "stage1" \in DOMAIN last.result)
    => /\ Rank(last.result.final_verdict) >= Rank(last.result.stage1.verdict)
       /\ last.result.risk_score >= last.result.stage1.score
       /\ \A v2 \in {"OK", "WARN", "BLOCK"}, s2 \in {0, 25, 50, 75, 100} :
             /\ Rank(CombineVerdict(last.result.stage1.verdict, v2))
                   >= Rank(last.result.stage1.verdict)
             /\ CombineScore(last.result.stage1.score, s2) >= last.result.stage1.score

\* Stage 1 blocks, Stage 2 succeeds with a milder verdict and a lower score
C29_Witness ==
    /\ last.op = "validate_link"
    /\ "stage1" \in DOMAIN last.result
    /\ last.result.stage1.verdict = "BLOCK"
    /\ last.result.stage2 # None
    /\ last.result.stage2.success = TRUE
    /\ Rank(last.result.stage2.verdict) < 2
    /\ last.result.stage2.score < last.result.stage1.score
    /\ last.result.final_verdict = "BLOCK"

----------------------------------------------------------------------------
\* the verdict of a result: "final_verdict" in the link path, "verdict" in
\* the others
VerdictOf(result) ==
    IF "final_verdict" \in DOMAIN result THEN result.final_verdict
    ELSE Get(result, "verdict", "none")

\* C30: every result validate_input returns without "error" whose verdict
\* (final verdict in the link path) is BLOCK has a risk_score of at least
\* 0.7, in the link, VPA, message and QR paths.
C30_BlockHasHighScore ==
    (/\ last.op = "validate_input"
     /\ "error" \notin DOMAIN last.result
     /\ VerdictOf(last.result) = "BLOCK")
    => last.result.risk_score >= 70

============================================================================
